---------------------------- MODULE Spec2Model ----------------------------
(***************************************************************************)
(* Model of the muse-prototype similarity-search core.                     *)
(*                                                                         *)
(* Part I  (SpecAdapter): the retrying embedding calls                     *)
(*   - Cohere  get_text_embedding    (thread + queue + join(timeout))      *)
(*   - Voyage  get_voyage_embedding  (same pattern, other backoff)         *)
(*   - Azure   AzureService.vectorize_text (synchronous retry loop),       *)
(*             vectorize_image and Vertex get_vertex_embeddings likewise   *)
(* Part II (SpecRank): the ranking functions of the search paths.          *)
(* Part III (SpecCall): normalize, combine and the request handlers around *)
(*   them, on exact vectors.                                               *)
(***************************************************************************)
EXTENDS Integers, Sequences, FiniteSets, TLC

(***************************************************************************)
(* Bounds of the model and program constants.                              *)
(***************************************************************************)
\* largest max_retries a caller passes to get_text_embedding / get_voyage_embedding
MaxRetriesBound == 3
\* max_retries of AzureService.vectorize_text and vectorize_image
AzureMaxRetries == 5
\* for attempt in range(3) in get_vertex_embeddings
VertexMaxRetries == 3
\* sleep after a timed-out attempt
CohereTimeoutSleep == 1
VoyageTimeoutSleep == 5
\* wait_time = 5 * (2 ** attempt) after a rate-limit error
RateLimitBase == 5

Providers == {"cohere", "voyage", "azure", "azure_image", "vertex"}
Threaded == {"cohere", "voyage"}
\* the loops that make the remote call themselves, inside try
Synchronous == {"azure", "azure_image", "vertex"}

\* what the remote call can end with: a vector, or an exception whose text is
\* one of these kinds
RateLimitErrs == {"rate limit exceeded", "HTTP 429"}
FatalErrs == {"invalid api key", "malformed input"}
Outcomes == {"ok"} \cup RateLimitErrs \cup FatalErrs

\* the synchronous loops tell these errors apart: the text get_vertex_embeddings
\* breaks on, and an exception that is not a requests.exceptions.RequestException
DnsErr == "DNS resolution failed"
OtherErr == "unexpected response"
SyncOutcomes == Outcomes \cup {DnsErr, OtherErr}

MaxOf(a, b) == IF a >= b THEN a ELSE b
Attempts == 0 .. (MaxOf(MaxRetriesBound, AzureMaxRetries) - 1)

\* result values: NoResult, or the vector the remote call of attempt a produced
NoResult == -1

\* max_retries=3 in the signatures of get_text_embedding and get_voyage_embedding
DefaultMaxRetries == 3

RECURSIVE Pow2(_)
Pow2(n) == IF n = 0 THEN 1 ELSE 2 * Pow2(n - 1)

RECURSIVE SumSeq(_)
SumSeq(s) == IF s = << >> THEN 0 ELSE Head(s) + SumSeq(Tail(s))

VARIABLES
  provider,     \* which retry loop is running
  max_retries,  \* its max_retries argument (Azure: the local constant 5)
  pc,           \* position of the caller in the loop
  attempt,      \* the loop variable
  worker,       \* per attempt: state of its worker thread
  queue,        \* per attempt: contents of its result_queue
  wait,         \* pending sleep duration
  result,       \* value returned
  failure,      \* exception raised ("" if none)
  started,      \* number of remote calls started
  declared,     \* attempts found alive by is_alive() after join (timed out)
  observed,     \* per attempt: what the caller saw ("", "timeout", or an outcome)
  consumed,     \* number of result_queue.get() calls that returned
  sleeps,       \* durations of the sleeps served, in order
  startedAt     \* per attempt: backoff time elapsed when it was started

adapterVars == << provider, max_retries, pc, attempt, worker, queue, wait, result,
                  failure, started, declared, observed, consumed, sleeps, startedAt >>

VARIABLES
  impl,         \* which search path ran ("" before any)
  corpus,       \* the stored embeddings, in file order (ids are positions)
  qtext,        \* text query vector (<< >> if absent)
  qimage,       \* image query vector (<< >> if absent)
  weight,       \* image_weight, in tenths
  top_k,        \* top_k / top_n
  status,       \* "ok": a list was returned; "raised": an exception left the function
  swallowed,    \* an exception was caught and turned into an empty list
  results,      \* the ranked list returned: records [id, score]
  scores        \* [id, score] of every entry that was scored, in scoring order

rankVars == << impl, corpus, qtext, qimage, weight, top_k, status, swallowed,
               results, scores >>

VARIABLES
  op,           \* which function or handler of Part III ran ("" before any)
  req,          \* its inputs
  resp          \* what it returned, and what it did on the way

callVars == << op, req, resp >>

VARIABLES
  process,          \* "down" before the application is imported, then "up"
  files,            \* per search path: the embeddings file on disk
  precomputed_data, \* the module-level corpus of views/azure_routes
  loads,            \* per search path: how often its loader has run
  produced,         \* what was on disk, and in precomputed_data, after start-up
  searches,         \* number of searches served
  last              \* the last search: its path, outcome, working arrays, results

lifeVars == << process, files, precomputed_data, loads, produced, searches, last >>

vars == << adapterVars, rankVars, callVars, lifeVars >>

elapsed == SumSeq(sleeps)

(***************************************************************************)
(* Part I: retry loops                                                     *)
(***************************************************************************)

AdapterInit ==
  /\ provider = "cohere"
  /\ max_retries = 0
  /\ pc = "idle"
  /\ attempt = 0
  /\ worker = [a \in Attempts |-> "idle"]
  /\ queue = [a \in Attempts |-> << >>]
  /\ wait = 0
  /\ result = NoResult
  /\ failure = ""
  /\ started = 0
  /\ declared = {}
  /\ observed = [a \in Attempts |-> ""]
  /\ consumed = 0
  /\ sleeps = << >>
  /\ startedAt = [a \in Attempts |-> 0]

RankInit ==
  /\ impl = ""
  /\ corpus = << >>
  /\ qtext = << >>
  /\ qimage = << >>
  /\ weight = 0
  /\ top_k = 0
  /\ status = ""
  /\ swallowed = FALSE
  /\ results = << >>
  /\ scores = << >>

\* the inputs of a call: the embeddings the provider holds for the text and the
\* image supplied (<< >> where the caller supplied none), the weights as the caller
\* sent them (<< >> if not sent, else << w >> with w in tenths), the number of
\* urls passed along with the stored vectors where they are passed apart, and the
\* environment
NoReq ==
  [ text |-> << >>, image |-> << >>, image_weight |-> << >>, text_weight |-> << >>,
    top_k |-> 0, corpus |-> << >>, urls |-> 0, text_up |-> TRUE, image_up |-> TRUE,
    loader_ok |-> TRUE ]

\* no vector: None
NoVec == [num |-> << >>, den2 |-> 1]

\* what came back: the kind of answer, the vector returned (NoVec if none), the
\* weights that multiplied the image and the text contribution (<< >> if nothing
\* was weighted), the ranked list, and what happened on the way
NoResp ==
  [ status |-> "", vector |-> NoVec, iw |-> << >>, tw |-> << >>, warned |-> FALSE,
    results |-> << >>, remote |-> 0, scored |-> 0, divided |-> FALSE,
    placeholder |-> FALSE, used |-> {}, reason |-> "" ]

CallInit ==
  /\ op = ""
  /\ req = NoReq
  /\ resp = NoResp

\* the search paths that keep their corpus in a file of their own
Paths == {"azure", "titan", "cohere"}

\* no such file (and precomputed_data = None)
Absent == [exists |-> FALSE, keys |-> TRUE, image_urls |-> << >>, embeddings |-> << >>]

NoSearch == [path |-> "", status |-> "", work |-> << >>, results |-> << >>]

LifeInit ==
  /\ process = "down"
  /\ files = [p \in Paths |-> Absent]
  /\ precomputed_data = Absent
  /\ loads = [p \in Paths |-> 0]
  /\ produced = [files |-> [p \in Paths |-> Absent], precomputed_data |-> Absent]
  /\ searches = 0
  /\ last = NoSearch

Init == AdapterInit /\ RankInit /\ CallInit /\ LifeInit

\* get_text_embedding(text, max_retries=3, ...) / get_voyage_embedding(...,
\* max_retries=3, ...) / vectorize_text(text) is called
Generate(p, m) ==
  /\ pc = "idle"
  /\ provider' = p
  /\ max_retries' = IF p = "vertex" THEN VertexMaxRetries
                    ELSE IF p \in Synchronous THEN AzureMaxRetries ELSE m
  /\ pc' = "loop"
  /\ attempt' = 0
  /\ UNCHANGED << worker, queue, wait, result, failure, started, declared,
                  observed, consumed, sleeps, startedAt >>
  /\ UNCHANGED << rankVars, callVars, lifeVars >>

\* faulty variant: the last retry is given up one attempt early
CanRetryOffByOne(a, m) == a < m - 2

\* faulty variant: the last attempt is followed by a retry as well
CanRetryAlways(a, m) == TRUE

\* faulty variant: a wait follows the last attempt too
CanRetryInclusive(a, m) == a <= m - 1

\* attempt < max_retries - 1
CanRetry(a, m) == a < m - 1

\* faulty variant: all remaining attempts are issued at once
ToStartAll(a, m) == a .. (m - 1)

\* the threads started by one pass through the loop body
ToStart(a, m) == {a}

\* for attempt in range(max_retries): ... thread.start()
LoopStart ==
  /\ pc = "loop"
  /\ provider \in Threaded
  /\ attempt < max_retries
  /\ worker' = [a \in Attempts |->
                  IF a \in ToStart(attempt, max_retries) THEN "calling" ELSE worker[a]]
  /\ started' = started + Cardinality(ToStart(attempt, max_retries))
  /\ startedAt' = [a \in Attempts |->
                  IF a \in ToStart(attempt, max_retries) THEN elapsed ELSE startedAt[a]]
  /\ pc' = "join"
  /\ UNCHANGED << provider, max_retries, attempt, queue, wait, result, failure,
                  declared, observed, consumed, sleeps >>
  /\ UNCHANGED << rankVars, callVars, lifeVars >>

\* range(max_retries) is exhausted: the function falls off its end (returns None)
LoopEnd ==
  /\ pc = "loop"
  /\ attempt >= max_retries
  /\ pc' = "returned"
  /\ result' = NoResult
  /\ UNCHANGED << provider, max_retries, attempt, worker, queue, wait, failure,
                  started, declared, observed, consumed, sleeps, startedAt >>
  /\ UNCHANGED << rankVars, callVars, lifeVars >>

\* faulty variant: one queue created before the loop and shared by all attempts
QueueShared(a) == 0

\* result_queue = queue.Queue() inside the loop body: a fresh queue per attempt
QueueOf(a) == a

\* thread.join(timeout=request_timeout) returns because the thread has ended
JoinFinished ==
  /\ pc = "join"
  /\ worker[attempt] = "dead"
  /\ pc' = "check"
  /\ UNCHANGED << provider, max_retries, attempt, worker, queue, wait, result,
                  failure, started, declared, observed, consumed, sleeps, startedAt >>
  /\ UNCHANGED << rankVars, callVars, lifeVars >>

\* thread.join(timeout=request_timeout) returns because request_timeout elapsed
JoinTimeout ==
  /\ pc = "join"
  /\ worker[attempt] # "dead"
  /\ pc' = "check"
  /\ UNCHANGED << provider, max_retries, attempt, worker, queue, wait, result,
                  failure, started, declared, observed, consumed, sleeps, startedAt >>
  /\ UNCHANGED << rankVars, callVars, lifeVars >>

\* faulty variant: the thread is taken to have ended whenever join has returned
IsAliveNever(a) == FALSE

\* thread.is_alive()
IsAlive(a) == worker[a] # "dead"

\* faulty variant: the retry after a timeout is immediate
TimeoutSleepNone(p) == 0

\* sleep(1) in get_text_embedding, sleep(5) in get_voyage_embedding
TimeoutSleep(p) == IF p = "cohere" THEN CohereTimeoutSleep ELSE VoyageTimeoutSleep

\* if thread.is_alive(): retry after a fixed sleep, or raise on the last attempt
CheckAlive ==
  /\ pc = "check"
  /\ IsAlive(attempt)
  /\ declared' = declared \cup {attempt}
  /\ observed' = [observed EXCEPT ![attempt] = "timeout"]
  /\ IF CanRetry(attempt, max_retries)
       THEN /\ pc' = "sleep"
            /\ wait' = TimeoutSleep(provider)
            /\ UNCHANGED failure
       ELSE /\ pc' = "raised"
            /\ failure' = "Failed after retries: Request exceeded timeout"
            /\ UNCHANGED wait
  /\ UNCHANGED << provider, max_retries, attempt, worker, queue, result, started,
                  consumed, sleeps, startedAt >>
  /\ UNCHANGED << rankVars, callVars, lifeVars >>

\* the thread is no longer alive: go on to result_queue.get()
CheckDead ==
  /\ pc = "check"
  /\ ~IsAlive(attempt)
  /\ pc' = "get"
  /\ UNCHANGED << provider, max_retries, attempt, worker, queue, wait, result,
                  failure, started, declared, observed, consumed, sleeps, startedAt >>
  /\ UNCHANGED << rankVars, callVars, lifeVars >>

\* "rate limit" in str(result).lower() or "429" in str(result)
IsRateLimit(err) == err \in RateLimitErrs

\* wait_time = 5 * (2 ** attempt)
RateLimitWait(a) == RateLimitBase * Pow2(a)

\* status, result = result_queue.get() and the branches that follow it
GetResult ==
  /\ pc = "get"
  /\ queue[QueueOf(attempt)] # << >>
  /\ LET item == Head(queue[QueueOf(attempt)]) IN
     /\ queue' = [queue EXCEPT ![QueueOf(attempt)] = Tail(queue[QueueOf(attempt)])]
     /\ consumed' = consumed + 1
     /\ observed' = [observed EXCEPT ![attempt] =
                       IF item.status = "success" THEN "ok" ELSE item.err]
     /\ IF item.status = "success"
          THEN /\ pc' = "returned"
               /\ result' = item.value
               /\ UNCHANGED << failure, wait >>
          ELSE IF IsRateLimit(item.err)
            THEN IF CanRetry(attempt, max_retries)
                   THEN /\ pc' = "sleep"
                        /\ wait' = RateLimitWait(attempt)
                        /\ UNCHANGED << result, failure >>
                   ELSE /\ pc' = "raised"
                        /\ failure' = "Failed after retries due to rate limit"
                        /\ UNCHANGED << result, wait >>
            ELSE /\ pc' = "raised"
                 /\ failure' = "API failed"
                 /\ UNCHANGED << result, wait >>
  /\ UNCHANGED << provider, max_retries, attempt, worker, started, declared,
                  sleeps, startedAt >>
  /\ UNCHANGED << rankVars, callVars, lifeVars >>

\* sleep(...) ends; the loop goes to its next iteration
SleepDone ==
  /\ pc = "sleep"
  /\ sleeps' = Append(sleeps, wait)
  /\ attempt' = attempt + 1
  /\ pc' = "loop"
  /\ UNCHANGED << provider, max_retries, worker, queue, wait, result, failure,
                  started, declared, observed, consumed, startedAt >>
  /\ UNCHANGED << rankVars, callVars, lifeVars >>

\* run_embedding_request: co.embed(...) / vo.multimodal_embed(...) returns or
\* raises, and the worker puts ("success", embedding) or ("error", str(e))
WorkerPut(a, oc) ==
  /\ provider \in Threaded
  /\ worker[a] = "calling"
  /\ worker' = [worker EXCEPT ![a] = "put"]
  /\ queue' = [queue EXCEPT ![QueueOf(a)] = Append(queue[QueueOf(a)],
                 IF oc = "ok"
                   THEN [status |-> "success", value |-> a, err |-> ""]
                   ELSE [status |-> "error", value |-> NoResult, err |-> oc])]
  /\ UNCHANGED << provider, max_retries, pc, attempt, wait, result, failure,
                  started, declared, observed, consumed, sleeps, startedAt >>
  /\ UNCHANGED << rankVars, callVars, lifeVars >>

\* run_embedding_request returns (or re-raises) and the thread ends
WorkerExit(a) ==
  /\ worker[a] = "put"
  /\ worker' = [worker EXCEPT ![a] = "dead"]
  /\ UNCHANGED << provider, max_retries, pc, attempt, queue, wait, result, failure,
                  started, declared, observed, consumed, sleeps, startedAt >>
  /\ UNCHANGED << rankVars, callVars, lifeVars >>

\* AzureService.vectorize_text / vectorize_image: for attempt in
\* range(max_retries): try: requests.post; get_vertex_embeddings: for attempt in
\* range(3): try: model.get_embeddings
AzureLoopStart ==
  /\ pc = "loop"
  /\ provider \in Synchronous
  /\ attempt < max_retries
  /\ worker' = [worker EXCEPT ![attempt] = "calling"]
  /\ started' = started + 1
  /\ startedAt' = [startedAt EXCEPT ![attempt] = elapsed]
  /\ pc' = "post"
  /\ UNCHANGED << provider, max_retries, attempt, queue, wait, result, failure,
                  declared, observed, consumed, sleeps >>
  /\ UNCHANGED << rankVars, callVars, lifeVars >>

\* wait_time = 2 ** attempt
AzureWait(a) == Pow2(a)

\* the remote call returns, or it (or raise_for_status) raises: except Exception
\* in vectorize_text and get_vertex_embeddings, except RequestException in
\* vectorize_image; get_vertex_embeddings breaks on a DNS error and returns its
\* fallback, as it does when the loop is exhausted
AzurePost(oc) ==
  /\ pc = "post"
  /\ worker' = [worker EXCEPT ![attempt] = "dead"]
  /\ observed' = [observed EXCEPT ![attempt] = oc]
  /\ IF oc = "ok"
       THEN /\ pc' = "returned"
            /\ result' = attempt
            /\ UNCHANGED << wait, failure >>
       ELSE IF provider = "azure_image" /\ oc = OtherErr
         THEN /\ pc' = "raised"
              /\ failure' = oc
              /\ UNCHANGED << wait, result >>
       ELSE IF provider = "vertex" /\ oc = DnsErr
         THEN /\ pc' = "returned"
              /\ result' = NoResult
              /\ UNCHANGED << wait, failure >>
       ELSE IF CanRetry(attempt, max_retries)
         THEN /\ pc' = "sleep"
              /\ wait' = AzureWait(attempt)
              /\ UNCHANGED << result, failure >>
         ELSE /\ pc' = "returned"
              /\ result' = NoResult
              /\ UNCHANGED << wait, failure >>
  /\ UNCHANGED << provider, max_retries, attempt, queue, started,
                  declared, consumed, sleeps, startedAt >>
  /\ UNCHANGED << rankVars, callVars, lifeVars >>

NextAdapter ==
  \/ \E p \in Providers, m \in 0 .. MaxRetriesBound : Generate(p, m)
  \/ LoopStart
  \/ LoopEnd
  \/ JoinFinished
  \/ JoinTimeout
  \/ CheckAlive
  \/ CheckDead
  \/ GetResult
  \/ SleepDone
  \/ \E a \in Attempts, oc \in Outcomes : WorkerPut(a, oc)
  \/ \E a \in Attempts : WorkerExit(a)
  \/ AzureLoopStart
  \/ \E oc \in SyncOutcomes : AzurePost(oc)

SpecAdapter == Init /\ [][NextAdapter]_vars

TypeOKAdapter ==
  /\ pc \in {"idle", "loop", "join", "check", "get", "sleep", "post", "returned", "raised"}
  /\ attempt \in 0 .. MaxOf(MaxRetriesBound, AzureMaxRetries)
  /\ started \in 0 .. Cardinality(Attempts)

(***************************************************************************)
(* Properties of the retry loops (checked under SpecAdapter).              *)
(* An attempt "times out" when is_alive() finds its worker still running    *)
(* after join(timeout) has returned: observed[a] = "timeout".              *)
(***************************************************************************)
Terminal == pc \in {"returned", "raised"}
InFlight == {a \in Attempts : worker[a] = "calling"}
StartedAttempts == {a \in Attempts : worker[a] # "idle"}
TimeoutBackoff == IF provider = "cohere" THEN CohereTimeoutSleep ELSE VoyageTimeoutSleep

\* C1: with max_retries = 3, when every attempt started has timed out, the call
\* never has more than 3 attempts, and once it has ended it has raised, returned
\* no vector, and started exactly 3 attempts.
C1_Exhaustion ==
  (provider \in Threaded /\ max_retries = DefaultMaxRetries)
    => /\ started <= DefaultMaxRetries
       /\ (Terminal /\ \A a \in StartedAttempts : observed[a] = "timeout")
            => /\ pc = "raised"
               /\ result = NoResult
               /\ started = DefaultMaxRetries
               /\ declared = 0 .. (DefaultMaxRetries - 1)

C1_Witness ==
  /\ provider \in Threaded
  /\ max_retries = DefaultMaxRetries
  /\ pc = "raised"
  /\ started = DefaultMaxRetries
  /\ \A a \in 0 .. (DefaultMaxRetries - 1) : observed[a] = "timeout"

\* C2 (as claimed): at most one remote call of the invocation is in flight, a call
\* counting from the start of its worker until the remote call returns or errors,
\* also after the adapter has declared it timed out.
C2_AtMostOneInFlight ==
  provider \in Threaded => Cardinality(InFlight) <= 1

\* C2 (amended): attempts are issued one after the other: every attempt before the
\* current one has ended or has been declared timed out, no later attempt has been
\* started, and at most one call not declared timed out is in flight.
C2_SequentialIssue ==
  provider \in Threaded =>
    /\ Cardinality(InFlight \ declared) <= 1
    /\ \A a \in Attempts :
         /\ (a < attempt /\ a \in StartedAttempts) => (a \in declared \/ worker[a] = "dead")
         /\ a > attempt => worker[a] = "idle"

C2_Witness ==
  /\ provider \in Threaded
  /\ \E a \in declared : a < attempt /\ worker[a] = "calling" /\ worker[attempt] = "calling"

\* C3: an attempt that ends with a malformed-input or authentication error ends
\* the call at once: no later attempt is started, no backoff is waited, the call
\* has failed; only a timeout or a rate-limit error is followed by another attempt.
C3_FatalShortCircuit ==
  \A a \in Attempts :
    /\ observed[a] \in FatalErrs =>
         /\ Terminal
         /\ result = NoResult
         /\ Len(sleeps) <= a
         /\ \A b \in Attempts : b > a => worker[b] = "idle"
    /\ (a + 1 \in StartedAttempts) => observed[a] \in {"timeout"} \cup RateLimitErrs

\* C3 on the threaded adapters alone (Cohere, Voyage)
C3_ThreadedFatalShortCircuit ==
  provider \in Threaded => C3_FatalShortCircuit

\* C4: timeouts on attempts 1 and 2 and success on attempt 3: the call returns the
\* vector of attempt 3, has started exactly 3 attempts, and each of the two
\* backoff waits was served before the next attempt was started.
C4_RetryScenario ==
  (/\ provider \in Threaded
   /\ max_retries >= 3
   /\ observed[0] = "timeout"
   /\ observed[1] = "timeout"
   /\ observed[2] = "ok")
    => /\ pc = "returned"
       /\ result = 2
       /\ started = 3
       /\ sleeps = << TimeoutBackoff, TimeoutBackoff >>
       /\ startedAt[1] >= TimeoutBackoff
       /\ startedAt[2] >= 2 * TimeoutBackoff
       /\ elapsed >= 2 * TimeoutBackoff

C4_Witness ==
  /\ provider \in Threaded
  /\ observed[0] = "timeout"
  /\ observed[1] = "timeout"
  /\ observed[2] = "ok"
  /\ pc = "returned"

\* C5 (as claimed, first part): the adapter consumes at most one result per
\* invocation.
C5_OneResultPerInvocation ==
  provider \in Threaded => consumed <= 1

\* C5 (amended): each attempt delivers at most one result; the adapter consumes at
\* most one result per attempt and none of an attempt it declared timed out, whose
\* result stays unread; the value returned is the result of the last attempt
\* started, which was not declared timed out.
C5_Handoff ==
  provider \in Threaded =>
    /\ \A a \in Attempts :
         /\ Len(queue[a]) <= 1
         /\ a \in declared =>
              /\ observed[a] = "timeout"
              /\ worker[a] \in {"put", "dead"} => Len(queue[a]) = 1
    /\ consumed = Cardinality({a \in Attempts : observed[a] \notin {"", "timeout"}})
    /\ consumed <= started - Cardinality(declared)
    /\ (pc = "returned" /\ result # NoResult) =>
         /\ result = attempt
         /\ result \notin declared
         /\ observed[result] = "ok"
         /\ started = result + 1

C5_Witness ==
  /\ provider \in Threaded
  /\ pc = "returned"
  /\ result = 1
  /\ 0 \in declared
  /\ worker[0] = "dead"
  /\ Len(queue[0]) = 1
  /\ queue[0][1].status = "success"

(***************************************************************************)
(* Part II: ranking                                                        *)
(*                                                                         *)
(* Vectors are sequences of integers.  The stored embeddings and the       *)
(* queries are drawn from vectors whose L2 norm is an integer, so that a   *)
(* cosine similarity is a rational number and SimScale times it is an      *)
(* integer: scores are exact, scaled by SimScale.  Stored entries are      *)
(* non-zero one-dimensional lists; an entry of another length than the     *)
(* query is a wrong-dimension entry.                                       *)
(***************************************************************************)
\* longest corpus enumerated exhaustively
MaxCorpus == 3
\* largest top_k a caller passes
MaxTopK == 4
\* top_results = results[:10]
CohereRouteTop == 10
\* image_weight = 0.6 in the Cohere route, in tenths
CohereRouteWeight == 6

SimScale == 10 * 5 * 5

EntryVecs == { <<1, 0>>, <<0, 1>>, <<3, 4>>, <<1, 0, 0>> }
QueryVecs == { <<1, 0>>, <<3, 4>> }
ImageQueryVecs == { << >>, <<0, 1>> }
Weights == {0, 5, 10}

RECURSIVE SeqsUpTo(_, _)
SeqsUpTo(S, n) ==
  IF n = 0 THEN { << >> }
  ELSE LET shorter == SeqsUpTo(S, n - 1) IN
       shorter \cup { Append(c, x) : c \in {d \in shorter : Len(d) = n - 1}, x \in S }

\* a corpus longer than the Cohere route's cut, cycling through the entries
LongPattern == << <<1, 0>>, <<3, 4>>, <<1, 0, 0>>, <<0, 1>>, <<-1, 0>>, <<3, 4>> >>
LongCorpora ==
  { [i \in 1 .. (CohereRouteTop + 2) |-> LongPattern[((i + r) % Len(LongPattern)) + 1]] :
      r \in 0 .. (Len(LongPattern) - 1) }

Corpora == SeqsUpTo(EntryVecs, MaxCorpus)

Min(a, b) == IF a <= b THEN a ELSE b

RECURSIVE Dot(_, _)
Dot(a, b) == IF a = << >> THEN 0 ELSE Head(a) * Head(b) + Dot(Tail(a), Tail(b))

\* np.linalg.norm on the model's vectors (integer norms)
Norm(v) == LET d == Dot(v, v) IN CHOOSE n \in 0 .. d : n * n = d

\* dot(a, b) / (||a|| * ||b||), times SimScale
Sim(a, b) == (Dot(a, b) * SimScale) \div (Norm(a) * Norm(b))

\* image_weight * image_sim + (1 - image_weight) * text_sim, the weight in tenths
Weighted(w, isim, tsim) == (w * isim + (10 - w) * tsim) \div 10

\* np.dot / sklearn's check of the pair: the lengths must agree
SameDim(a, b) == Len(a) = Len(b)

Reverse(s) == [i \in 1 .. Len(s) |-> s[Len(s) + 1 - i]]

\* s[:k] for k >= 0
Take(s, k) == SubSeq(s, 1, Min(k, Len(s)))

\* s[-k:] for k >= 0: Python reads -0 as 0, so s[-0:] is the whole of s
LastK(s, k) == IF k = 0 THEN s ELSE SubSeq(s, Len(s) - Min(k, Len(s)) + 1, Len(s))

\* the orderings of the index set S along which x does not decrease
RECURSIVE Ascending(_, _)
Ascending(x, S) ==
  IF S = {} THEN { << >> }
  ELSE LET least == {i \in S : \A j \in S : x[i] <= x[j]} IN
       UNION { { << i >> \o t : t \in Ascending(x, S \ {i}) } : i \in least }

\* np.argsort(x) with the default kind ("quicksort", not stable): any ordering of
\* the indices along which x does not decrease
ArgSorts(x) == Ascending(x, 1 .. Len(x))

\* list.sort(key=score, reverse=True): stable, equal scores keep their order
RECURSIVE StableSortDesc(_)
StableSortDesc(s) ==
  IF s = << >> THEN << >>
  ELSE LET front == StableSortDesc(SubSeq(s, 1, Len(s) - 1))
           x == s[Len(s)]
       IN SelectSeq(front, LAMBDA y : y.score >= x.score)
            \o << x >> \o SelectSeq(front, LAMBDA y : y.score < x.score)

\* the entries that have the query's dimension
ValidIds(c, q) == {i \in 1 .. Len(c) : SameDim(c[i], q)}

Scored(ids, sc) == [i \in 1 .. Len(ids) |-> [id |-> ids[i], score |-> sc[i]]]

Deliver(name, c, qt, qi, w, k, st, sw, res, sc) ==
  /\ impl' = name
  /\ corpus' = c
  /\ qtext' = qt
  /\ qimage' = qi
  /\ weight' = w
  /\ top_k' = k
  /\ status' = st
  /\ swallowed' = sw
  /\ results' = res
  /\ scores' = sc
  /\ UNCHANGED << adapterVars, callVars, lifeVars >>

\* AzureService.find_similar_images(combined_embedding, reference_embeddings,
\* reference_urls, top_k) with as many urls as embeddings
AzureFindSimilar(c, q, k) ==
  /\ impl = ""
  /\ IF \E i \in 1 .. Len(c) : ~SameDim(q, c[i])
       THEN \* np.dot raises ValueError inside the list comprehension
            Deliver("azure", c, q, << >>, 0, k, "raised", FALSE, << >>, << >>)
       ELSE LET sims == [i \in 1 .. Len(c) |-> Sim(q, c[i])] IN
            \E p \in ArgSorts(sims) :
              LET top == Reverse(LastK(p, k)) IN
              Deliver("azure", c, q, << >>, 0, k, "ok", FALSE,
                      [i \in 1 .. Len(top) |-> [id |-> top[i], score |-> sims[top[i]]]],
                      [i \in 1 .. Len(c) |-> [id |-> i, score |-> sims[i]]])

\* np.array(list_of_lists): all rows of one length, or it raises
Homogeneous(c) == \A i, j \in 1 .. Len(c) : Len(c[i]) = Len(c[j])

\* faulty variant: the [::-1] is missing, the k lowest scores are taken
TopOfAscending(p, k, ids, sims) ==
  LET top == Take(p, k) IN
  [i \in 1 .. Len(top) |-> [id |-> ids[top[i]], score |-> sims[top[i]]]]

\* np.argsort(sims)[::-1][:k] turned into [id, score] records, ids taken from `ids`
TopOf(p, k, ids, sims) ==
  LET top == Take(Reverse(p), k) IN
  [i \in 1 .. Len(top) |-> [id |-> ids[top[i]], score |-> sims[top[i]]]]

\* similarity_service.find_similar_images(query_embedding, top_n)
TitanFindSimilar(c, q, n) ==
  /\ impl = ""
  /\ IF c = << >>
       THEN \* if not embeddings_data: return []
            Deliver("titan", c, q, << >>, 0, n, "ok", FALSE, << >>, << >>)
       ELSE IF ~Homogeneous(c) \/ ~SameDim(q, c[1])
         THEN \* np.array(..., dtype=np.float32) or cosine_similarity raises;
              \* except Exception: return []
              Deliver("titan", c, q, << >>, 0, n, "ok", TRUE, << >>, << >>)
         ELSE LET ids == [i \in 1 .. Len(c) |-> i]
                  sims == [i \in 1 .. Len(c) |-> Sim(q, c[i])] IN
              \E p \in ArgSorts(sims) :
                Deliver("titan", c, q, << >>, 0, n, "ok", FALSE,
                        TopOf(p, n, ids, sims), Scored(ids, sims))

\* the weighted merge of the two similarity lists used by the score-level paths
Combined(c, ids, qt, qi, w) ==
  [i \in 1 .. Len(ids) |->
     IF qt # << >> /\ qi # << >>
       THEN Weighted(w, Sim(qi, c[ids[i]]), Sim(qt, c[ids[i]]))
       ELSE IF qt # << >> THEN Sim(qt, c[ids[i]]) ELSE Sim(qi, c[ids[i]])]

\* twelvelabs_service.search_multimodal: on a ragged corpus keep the entries that
\* have the length of the first one
KeptIds(c) ==
  IF Homogeneous(c) THEN [i \in 1 .. Len(c) |-> i]
  ELSE SelectSeq([i \in 1 .. Len(c) |-> i], LAMBDA i : Len(c[i]) = Len(c[1]))

\* twelvelabs_service.search_multimodal(query_text, query_image_path, top_k, image_weight)
TwelveLabsSearch(c, qt, qi, w, k) ==
  /\ impl = ""
  /\ IF (qt = << >> /\ qi = << >>) \/ c = << >>
       THEN \* raise ValueError(...), logged and re-raised
            Deliver("twelvelabs", c, qt, qi, w, k, "raised", FALSE, << >>, << >>)
       ELSE LET ids == KeptIds(c) IN
            IF \/ (qt # << >> /\ ~SameDim(qt, c[ids[1]]))
               \/ (qi # << >> /\ ~SameDim(qi, c[ids[1]]))
              THEN \* sklearn's cosine_similarity raises on the dimension mismatch
                   Deliver("twelvelabs", c, qt, qi, w, k, "raised", FALSE, << >>, << >>)
              ELSE LET sims == Combined(c, ids, qt, qi, w) IN
                   \E p \in ArgSorts(sims) :
                     Deliver("twelvelabs", c, qt, qi, w, k, "ok", FALSE,
                             Take(StableSortDesc(TopOf(p, k, ids, sims)), k),
                             Scored(ids, sims))

\* search_service.search_multimodal(query_text, query_image_path, top_k, image_weight)
TitanMultimodal(c, qt, qi, w, k) ==
  /\ impl = ""
  /\ IF c = << >>
       THEN \* if not embeddings_dict: return []
            Deliver("titan_multimodal", c, qt, qi, w, k, "ok", FALSE, << >>, << >>)
       ELSE IF ~Homogeneous(c) \/ ~SameDim(qt, c[1])
         THEN \* np.array / cosine_similarity raises; outer except: return []
              Deliver("titan_multimodal", c, qt, qi, w, k, "ok", TRUE, << >>, << >>)
         ELSE LET ids == [i \in 1 .. Len(c) |-> i]
                  \* an image similarity that raises falls back to text only
                  qiUsed == IF qi # << >> /\ SameDim(qi, c[1]) THEN qi ELSE << >>
                  sims == Combined(c, ids, qt, qiUsed, w) IN
              \E p \in ArgSorts(sims) :
                Deliver("titan_multimodal", c, qt, qi, w, k, "ok", FALSE,
                        TopOf(p, k, ids, sims), Scored(ids, sims))

\* cohere_service.search_images(query_text, stored_embeddings, image_paths, top_k,
\* query_image_path, image_weight)
CohereSearchImages(c, qt, qi, w, k) ==
  /\ impl = ""
  /\ IF \E i \in 1 .. Len(c) : ~SameDim(qt, c[i]) \/ (qi # << >> /\ ~SameDim(qi, c[i]))
       THEN \* np.dot raises ValueError in cosine_similarity; nothing catches it
            Deliver("cohere", c, qt, qi, w, k, "raised", FALSE, << >>, << >>)
       ELSE LET ids == [i \in 1 .. Len(c) |-> i]
                all == Scored(ids, Combined(c, ids, qt, qi, w)) IN
            Deliver("cohere", c, qt, qi, w, k, "ok", FALSE,
                    Take(StableSortDesc(all), k), all)

\* one similarity of the Cohere route: a mismatch that no reshape can repair
\* makes np.dot raise, and the except branch sets the similarity to 0.0
RouteSim(q, e) == IF SameDim(q, e) THEN Sim(q, e) ELSE 0

\* views/cohere_routes.search, from the scoring loop to the top-10 cut
CohereRoute(c, qt, qi) ==
  /\ impl = ""
  /\ qt # << >> \/ qi # << >>
  /\ IF c = << >>
       THEN \* 'No embeddings found in the file', 404
            Deliver("cohere_route", c, qt, qi, CohereRouteWeight, CohereRouteTop,
                    "raised", FALSE, << >>, << >>)
       ELSE LET ids == [i \in 1 .. Len(c) |-> i]
                sims == [i \in 1 .. Len(c) |->
                           IF qt # << >> /\ qi # << >>
                             THEN Weighted(CohereRouteWeight, RouteSim(qi, c[i]),
                                           RouteSim(qt, c[i]))
                             ELSE IF qt # << >> THEN RouteSim(qt, c[i])
                                  ELSE RouteSim(qi, c[i])]
                all == Scored(ids, sims) IN
            Deliver("cohere_route", c, qt, qi, CohereRouteWeight, CohereRouteTop,
                    "ok", FALSE, Take(StableSortDesc(all), CohereRouteTop), all)

TopKs == 0 .. MaxTopK
OptQueryVecs == QueryVecs \cup { << >> }

\* a search request arrives (one per behaviour) with some corpus on disk
AzureRequest ==
  /\ impl = ""
  /\ \E c \in Corpora, q \in QueryVecs, k \in TopKs : AzureFindSimilar(c, q, k)

TitanRequest ==
  /\ impl = ""
  /\ \E c \in Corpora, q \in QueryVecs, k \in TopKs : TitanFindSimilar(c, q, k)

TwelveLabsRequest ==
  /\ impl = ""
  /\ \E c \in Corpora, qt \in OptQueryVecs, qi \in ImageQueryVecs, w \in Weights, k \in TopKs :
       TwelveLabsSearch(c, qt, qi, w, k)

TitanMultimodalRequest ==
  /\ impl = ""
  /\ \E c \in Corpora, qt \in QueryVecs, qi \in ImageQueryVecs, w \in Weights, k \in TopKs :
       TitanMultimodal(c, qt, qi, w, k)

CohereSearchRequest ==
  /\ impl = ""
  /\ \E c \in Corpora, qt \in QueryVecs, qi \in ImageQueryVecs, w \in Weights, k \in TopKs :
       CohereSearchImages(c, qt, qi, w, k)

CohereRouteRequest ==
  /\ impl = ""
  /\ \E c \in Corpora \cup LongCorpora, qt \in OptQueryVecs, qi \in ImageQueryVecs :
       CohereRoute(c, qt, qi)

NextRank ==
  \/ AzureRequest
  \/ TitanRequest
  \/ TwelveLabsRequest
  \/ TitanMultimodalRequest
  \/ CohereSearchRequest
  \/ CohereRouteRequest

SpecRank == Init /\ [][NextRank]_vars


(***************************************************************************)
(* Properties of the ranking (checked under SpecRank).                     *)
(***************************************************************************)
\* the query vector the entries are compared with (text and image queries have
\* the same dimension)
Query == IF qtext # << >> THEN qtext ELSE qimage
Valid == ValidIds(corpus, Query)
Returned == {results[i].id : i \in 1 .. Len(results)}
Ranked == status = "ok" /\ ~swallowed
NonIncreasing(r) == \A i \in 1 .. (Len(r) - 1) : r[i].score >= r[i + 1].score

\* C6: the ranked list returned has exactly min(top_k, number of valid corpus
\* entries) elements, for every corpus and every top_k, 0 included.
C6_ResultCount ==
  (impl \in {"azure", "titan", "twelvelabs"} /\ status = "ok")
    => Len(results) = Min(top_k, Cardinality(Valid))

\* C7: entries of equal combined similarity are returned in corpus order, and when
\* only some of them fit in the top_k the ones with the smaller index are returned.
C7_TieBreak ==
  (impl \in {"titan", "azure", "cohere"} /\ Ranked /\ top_k >= 1)
    => /\ \A i, j \in 1 .. Len(results) :
            (i < j /\ results[i].score = results[j].score) => results[i].id < results[j].id
       /\ \A i \in 1 .. Len(results), j \in 1 .. Len(scores) :
            (scores[j].id \notin Returned /\ scores[j].score = results[i].score)
              => results[i].id < scores[j].id

C9_MalformedEntry ==
  (/\ impl \in {"cohere_route", "twelvelabs"}
   /\ Query # << >>
   /\ top_k >= 1
   /\ Cardinality(Valid) >= 1
   /\ Cardinality(Valid) = Len(corpus) - 1)
    => /\ status = "ok"
       /\ Returned \subseteq Valid

\* C10: a wrong-dimension entry never aborts the search: it is dropped, and the
\* remaining entries are still ranked and returned.
C10_MismatchNeverAborts ==
  (/\ impl \in {"azure", "titan_multimodal"}
   /\ Cardinality(Valid) >= 1
   /\ Cardinality(Valid) < Len(corpus)
   /\ top_k >= 1)
    => /\ Ranked
       /\ results # << >>
       /\ Returned \subseteq Valid
       /\ Len(results) = Min(top_k, Cardinality(Valid))

(***************************************************************************)
(* Part III: normalize, combine and the handlers around them               *)
(*                                                                         *)
(* A vector is kept exactly, as a record [num, den2] that stands for       *)
(* num / sqrt(den2): num a sequence of integers, den2 a positive integer.  *)
(* A score is kept the same way with an integer num.  Both are kept        *)
(* reduced, so that equal values are equal records.  Rounding of floating- *)
(* point arithmetic is not modelled.  The embeddings a provider returns    *)
(* are integer vectors of integer norm; a stored vector may have any norm. *)
(***************************************************************************)
Abs(n) == IF n < 0 THEN -n ELSE n
Sgn(n) == IF n < 0 THEN -1 ELSE IF n = 0 THEN 0 ELSE 1

RECURSIVE Gcd(_, _)
Gcd(a, b) == IF b = 0 THEN a ELSE Gcd(b, a % b)

RECURSIVE GcdSeq(_)
GcdSeq(s) == IF s = << >> THEN 0 ELSE Gcd(Abs(Head(s)), GcdSeq(Tail(s)))

\* the largest g that divides n and whose square divides d2 (n = 0: none needed)
Reducer(n, d2) ==
  IF n = 0 THEN 1
  ELSE CHOOSE g \in 1 .. n :
         /\ n % g = 0 /\ d2 % (g * g) = 0
         /\ \A h \in (g + 1) .. n : ~(n % h = 0 /\ d2 % (h * h) = 0)

\* num / sqrt(den2), reduced; the zero vector of a length has one form
Exact(num, den2) ==
  IF GcdSeq(num) = 0 THEN [num |-> num, den2 |-> 1]
  ELSE LET g == Reducer(GcdSeq(num), den2) IN
       [num |-> [i \in 1 .. Len(num) |-> num[i] \div g], den2 |-> den2 \div (g * g)]

\* np.array(vector) of a list of numbers
Vec(v) == Exact(v, 1)

\* the square of np.linalg.norm(x), as the pair numerator / denominator
SquaredNorm(x) == [n |-> Dot(x.num, x.num), d |-> x.den2]

IsZeroVec(x) == Dot(x.num, x.num) = 0
IsUnit(x) == Dot(x.num, x.num) = x.den2

\* the root of a perfect square
Root(n) == CHOOSE r \in 0 .. n : r * r = n

\* faulty variant: the division by the norm is missing
NormalizeVectorIdentity(x) == x

\* AzureService.normalize_vector: vector_np if norm == 0 else vector_np / norm.
\* x / ||x|| with ||x|| = sqrt(num.num / den2) is num / sqrt(num.num)
NormalizeVector(x) ==
  IF SquaredNorm(x).n = 0 THEN x ELSE Exact(x.num, Dot(x.num, x.num))

\* w * x for a weight w given in tenths
Scale(w, x) == Exact([i \in 1 .. Len(x.num) |-> w * x.num[i]], 100 * x.den2)

\* x + y for two vectors of rational entries (den2 a perfect square)
Plus(x, y) ==
  LET p == Root(x.den2)
      q == Root(y.den2)
  IN Exact([i \in 1 .. Len(x.num) |-> q * x.num[i] + p * y.num[i]], (p * q) * (p * q))

\* np.dot(x, y) as a score
DotExact(x, y) ==
  LET n == Dot(x.num, y.num)
      d2 == x.den2 * y.den2
      g == Reducer(Abs(n), d2)
  IN IF n = 0 THEN [num |-> 0, den2 |-> 1] ELSE [num |-> n \div g, den2 |-> d2 \div (g * g)]

\* a <= b for two scores: compare the signed squares, cross-multiplied
ScoreLeq(a, b) ==
  Sgn(a.num) * a.num * a.num * b.den2 <= Sgn(b.num) * b.num * b.num * a.den2

\* image_weight: float = 0.4 and text_weight: float = 0.6, in tenths: the defaults
\* of combine_embeddings, and of the search route for a parameter that was not sent
AzureImageWeight == 4
AzureTextWeight == 6

\* a weight as sent (<< >> or << w >>), or the default d
Sent(w, d) == IF w = << >> THEN d ELSE w[1]

\* AzureService.combine_embeddings(image_embedding, text_embedding, image_weight,
\* text_weight) on lists of numbers; a None argument is << >>
CombineEmbeddings(image, text, iw, tw) ==
  IF image = << >> /\ text = << >> THEN NoVec
  ELSE IF image = << >> THEN NormalizeVector(Vec(text))
  ELSE IF text = << >> THEN NormalizeVector(Vec(image))
  ELSE NormalizeVector(Plus(Scale(iw, NormalizeVector(Vec(image))),
                            Scale(tw, NormalizeVector(Vec(text)))))

\* faulty variant: the two vectors are multiplied as they are
AzureCosineRaw(x, y) == DotExact(x, y)

\* AzureService.cosine_similarity(vec1, vec2): the dot product of the two
\* normalized vectors
AzureCosine(x, y) == DotExact(NormalizeVector(x), NormalizeVector(y))

\* the orderings of the index set S along which the scores x do not decrease
RECURSIVE AscendingExact(_, _)
AscendingExact(x, S) ==
  IF S = {} THEN { << >> }
  ELSE LET least == {i \in S : \A j \in S : ScoreLeq(x[i], x[j])} IN
       UNION { { << i >> \o t : t \in AscendingExact(x, S \ {i}) } : i \in least }

\* a sequence given by a rule, as the explicit tuple of its elements
Listed(s) == SubSeq(s, 1, Len(s))

\* the lists AzureService.find_similar_images(q, c, urls, top_k) can return for a
\* query q and stored vectors c of the query's length:
\* np.argsort(similarities)[-top_k:][::-1]
FindSimilarImages(q, c, k) ==
  LET sims == Listed([i \in 1 .. Len(c) |-> AzureCosine(q, Vec(c[i]))]) IN
  { LET top == Reverse(LastK(p, k)) IN
    [i \in 1 .. Len(top) |-> [id |-> top[i], score |-> sims[top[i]]]] :
      p \in AscendingExact(sims, 1 .. Len(c)) }

\* the call returns: the handler has run to its end
Answer(name, rq, rs) ==
  /\ op' = name
  /\ req' = rq
  /\ resp' = rs
  /\ UNCHANGED << adapterVars, rankVars, lifeVars >>

\* longest list of stored vectors passed to find_similar_images
MaxCallCorpus == 3
\* largest top_k passed in Part III
MaxCallTopK == 3

TextEmbeddings == { <<1, 0>>, <<3, 4>> }
ImageEmbeddings == { <<0, 1>>, <<4, 3>> }
OptText == TextEmbeddings \cup { << >> }
OptImage == ImageEmbeddings \cup { << >> }
\* image_weight / text_weight as a caller can send them, in tenths, or not at all
SentWeights == { << >>, << -5 >>, << 0 >>, << 4 >>, << 10 >>, << 15 >> }
StoredVecs == { <<1, 0>>, <<0, 1>>, <<1, 1>> }
CallCorpora == SeqsUpTo(StoredVecs, MaxCallCorpus)
CallTopKs == 1 .. MaxCallTopK

\* embeddings handed to combine_embeddings directly: of integer norm, the zero
\* vector and a pair of opposite vectors among them, or None
CombineVecs == { << >>, <<0, 0>>, <<1, 0>>, <<0, 1>>, <<3, 4>>, <<-2, 0>> }

\* combine_embeddings is called, with or without its two weight arguments
CombineCall ==
  /\ op = ""
  /\ \E image \in CombineVecs, text \in CombineVecs, iw \in SentWeights, tw \in SentWeights :
       LET i == Sent(iw, AzureImageWeight)
           t == Sent(tw, AzureTextWeight)
           v == CombineEmbeddings(image, text, i, t)
           both == image # << >> /\ text # << >>
       IN Answer("combine_embeddings",
                 [NoReq EXCEPT !.image = image, !.text = text,
                               !.image_weight = iw, !.text_weight = tw],
                 [NoResp EXCEPT !.status = IF v = NoVec THEN "none" ELSE "ok",
                                !.vector = v,
                                !.iw = IF both THEN << i >> ELSE << >>,
                                !.tw = IF both THEN << t >> ELSE << >>,
                                !.used = (IF image # << >> THEN {"image"} ELSE {})
                                           \cup (IF text # << >> THEN {"text"} ELSE {})])

\* the stored embeddings the handlers of Part III search
RouteCorpora == { << <<1, 0>>, <<0, 1>>, <<1, 1>> >>, << <<0, 1>>, <<1, 1>> >> }

\* faulty variant: an embedding is there whether the provider answered or not
EmbeddedAlways(v, up) == v

\* faulty variant: a failed call yields a placeholder vector
EmbeddedPlaceholder(v, up) == IF v = << >> \/ up THEN v ELSE <<1, 0>>

\* what a provider call yields: the embedding, or None after its retries
Embedded(v, up) == IF v # << >> /\ up THEN v ELSE << >>

Count(b) == IF b THEN 1 ELSE 0

Modalities(text, image) ==
  (IF image # << >> THEN {"image"} ELSE {}) \cup (IF text # << >> THEN {"text"} ELSE {})

\* views/azure_routes.search_images: POST /search
AzureSearch ==
  /\ op = ""
  /\ \E text \in OptText, image \in OptImage, iw \in SentWeights, tw \in SentWeights,
        k \in CallTopKs, c \in RouteCorpora, tup \in BOOLEAN, iup \in BOOLEAN,
        lok \in BOOLEAN :
       LET rq == [NoReq EXCEPT !.text = text, !.image = image, !.image_weight = iw,
                               !.text_weight = tw, !.top_k = k, !.corpus = c,
                               !.text_up = tup, !.image_up = iup, !.loader_ok = lok]
           \* image_embedding = azure_service.vectorize_image(image_url)
           image_embedding == Embedded(image, iup)
           i == Sent(iw, AzureImageWeight)
           t == Sent(tw, AzureTextWeight)
           \* text_embedding = azure_service.vectorize_text(query_text)
           text_embedding == Embedded(text, tup)
           both == image_embedding # << >> /\ text_embedding # << >>
       IN IF ~lok
            THEN \* if not precomputed_data: 500
                 Answer("azure_search", rq, [NoResp EXCEPT !.status = "error"])
          ELSE IF image = << >> /\ text = << >>
            THEN \* if not image_url and not query_text: 400
                 Answer("azure_search", rq, [NoResp EXCEPT !.status = "missing_query"])
          ELSE IF image_embedding = << >> /\ text_embedding = << >>
            THEN \* 'Failed to generate embeddings', 500
                 Answer("azure_search", rq,
                        [NoResp EXCEPT !.status = "error",
                                       !.remote = Count(image # << >>) + Count(text # << >>)])
          ELSE LET combined == CombineEmbeddings(image_embedding, text_embedding, i, t) IN
               \E res \in FindSimilarImages(combined, c, k) :
                 Answer("azure_search", rq,
                        [NoResp EXCEPT !.status = "ok",
                                       !.vector = combined,
                                       !.iw = IF both THEN << i >> ELSE << >>,
                                       !.tw = IF both THEN << t >> ELSE << >>,
                                       !.results = res,
                                       !.remote = Count(image # << >>) + Count(text # << >>),
                                       !.scored = Len(c),
                                       !.used = Modalities(text_embedding, image_embedding)])

\* w * s for a score s and a weight w in tenths
ScaleScore(w, s) ==
  LET n == w * s.num
      d2 == 100 * s.den2
      g == Reducer(Abs(n), d2)
  IN IF n = 0 THEN [num |-> 0, den2 |-> 1] ELSE [num |-> n \div g, den2 |-> d2 \div (g * g)]

\* x + y for two scores a / sqrt(A) and b / sqrt(B) with A * B a perfect square
\* (the scores of one stored vector against queries of integer norm):
\* (a * B + b * sqrt(A * B)) / (B * sqrt(A))
PlusScore(x, y) ==
  IF x.num = 0 THEN y
  ELSE IF y.num = 0 THEN x
  ELSE LET n == x.num * y.den2 + y.num * Root(x.den2 * y.den2)
           d2 == x.den2 * y.den2 * y.den2
           g == Reducer(Abs(n), d2)
       IN IF n = 0 THEN [num |-> 0, den2 |-> 1]
          ELSE [num |-> n \div g, den2 |-> d2 \div (g * g)]

\* sklearn.metrics.pairwise.cosine_similarity of one query row against one stored
\* row: both rows are normalized (a zero row is left as it is), then multiplied
SklearnCosine(q, e) == DotExact(NormalizeVector(Vec(q)), NormalizeVector(Vec(e)))

\* results.sort(key=combined_similarity, reverse=True) on exact scores: stable
RECURSIVE SortDescExact(_)
SortDescExact(s) ==
  IF s = << >> THEN << >>
  ELSE LET front == SortDescExact(SubSeq(s, 1, Len(s) - 1))
           x == s[Len(s)]
       IN SelectSeq(front, LAMBDA y : ScoreLeq(x.score, y.score))
            \o << x >> \o SelectSeq(front, LAMBDA y : ~ScoreLeq(x.score, y.score))

\* faulty variant: the weighted sum is formed in the single-modality branches too,
\* the missing similarity taken as 0
TwelveLabsCombinedAlways(t, i, w) ==
  IF t = << >> THEN ScaleScore(w, i[1])
  ELSE IF i = << >> THEN ScaleScore(10 - w, t[1])
  ELSE PlusScore(ScaleScore(10 - w, t[1]), ScaleScore(w, i[1]))

\* twelvelabs_service.search_multimodal, lines 186-193: t and i are the text and
\* the image similarity of one entry, << >> if that query is absent
TwelveLabsCombined(t, i, w) ==
  IF t # << >> /\ i # << >>
    THEN PlusScore(ScaleScore(10 - w, t[1]), ScaleScore(w, i[1]))
  ELSE IF t # << >> THEN t[1]
  ELSE i[1]

\* the result lists of twelvelabs_service.search_multimodal once both embeddings
\* are there (<< >>: no such query), on stored vectors c of which the first has
\* the queries' length
TwelveLabsRanked(text, image, c, k, w) ==
  LET \* the entries np.array accepts, or those left by the filter of lines 136-163
      image_paths == KeptIds(c)
      tsim == Listed([n \in 1 .. Len(image_paths) |->
                 IF text = << >> THEN << >>
                 ELSE << SklearnCosine(text, c[image_paths[n]]) >>])
      isim == Listed([n \in 1 .. Len(image_paths) |->
                 IF image = << >> THEN << >>
                 ELSE << SklearnCosine(image, c[image_paths[n]]) >>])
      comb == Listed([n \in 1 .. Len(image_paths) |->
                 TwelveLabsCombined(tsim[n], isim[n], w)])
  IN { LET top == Take(Reverse(p), k) IN
       Take(SortDescExact([n \in 1 .. Len(top) |->
                             [id |-> image_paths[top[n]], score |-> comb[top[n]],
                              text_similarity |-> tsim[top[n]],
                              image_similarity |-> isim[top[n]]]]), k) :
         p \in AscendingExact(comb, 1 .. Len(image_paths)) }

\* what twelvelabs_service.search_multimodal(query_text, query_image_path, top_k,
\* image_weight) can end with; "raised" is the exception it re-raises
TwelveLabsOutcomes(text, image, tup, iup, lok, c, k, w) ==
  IF text = << >> /\ image = << >>
    THEN \* raise ValueError("Either query_text or query_image_path must be provided")
         { [NoResp EXCEPT !.status = "raised_missing_query"] }
  ELSE IF ~lok \/ c = << >>
    THEN \* open(TWELVELABS_EMBEDDINGS_JSON) fails, or the dictionary is empty
         { [NoResp EXCEPT !.status = "raised_corpus"] }
  ELSE IF text # << >> /\ ~tup
    THEN \* get_embedding_for_text raises
         { [NoResp EXCEPT !.status = "raised_provider", !.remote = 1] }
  ELSE IF image # << >> /\ ~iup
    THEN \* get_embedding_for_image raises, after the text similarities
         { [NoResp EXCEPT !.status = "raised_provider",
                          !.remote = Count(text # << >>) + 1,
                          !.scored = IF text # << >> THEN Len(KeptIds(c)) ELSE 0] }
  ELSE LET both == text # << >> /\ image # << >> IN
       { [NoResp EXCEPT !.status = "ok",
                        !.iw = IF both THEN << w >> ELSE << >>,
                        !.tw = IF both THEN << 10 - w >> ELSE << >>,
                        !.results = res,
                        !.remote = Count(text # << >>) + Count(image # << >>),
                        !.scored = Len(KeptIds(c)),
                        !.used = Modalities(text, image)] :
           res \in TwelveLabsRanked(text, image, c, k, w) }

\* the embeddings file of the TwelveLabs search: the corpora of the other routes,
\* and one in which an entry has another length than the first
TwelveLabsCorpora ==
  RouteCorpora \cup { << <<1, 0>>, <<1, 0, 0>>, <<0, 1>>, <<1, 1>> >> }

\* image_weight = 0.5 in views/twelvelabs_routes.search, and the 0.4 read by
\* handle_twelvelabs_search when the form has no image_weight, in tenths
TwelveLabsRouteWeight == 5
TwelveLabsControllerWeight == 4

\* the except branch of a handler: the exception becomes a 500 answer
Caught(rs) ==
  IF rs.status \in {"raised_missing_query", "raised_corpus", "raised_provider"}
    THEN [rs EXCEPT !.status = "error", !.reason = rs.status]
    ELSE rs

\* views/twelvelabs_routes.search: POST /twelvelabs/search
TwelveLabsRoute ==
  /\ op = ""
  /\ \E text \in OptText, image \in OptImage, iw \in SentWeights, k \in CallTopKs,
        c \in TwelveLabsCorpora, tup \in BOOLEAN, iup \in BOOLEAN, lok \in BOOLEAN :
       LET rq == [NoReq EXCEPT !.text = text, !.image = image, !.image_weight = iw,
                               !.top_k = k, !.corpus = c, !.text_up = tup,
                               !.image_up = iup, !.loader_ok = lok]
           image_weight == Sent(iw, TwelveLabsRouteWeight)
       IN IF text = << >> /\ image = << >>
            THEN \* 'No valid query text or image found', 400
                 Answer("twelvelabs_route", rq, [NoResp EXCEPT !.status = "missing_query"])
            ELSE \E rs \in TwelveLabsOutcomes(text, image, tup, iup, lok, c, k, image_weight) :
                   Answer("twelvelabs_route", rq, Caught(rs))

\* controllers/twelvelabs_controller.handle_twelvelabs_search
TwelveLabsController ==
  /\ op = ""
  /\ \E text \in OptText, image \in OptImage, iw \in SentWeights, k \in CallTopKs,
        c \in TwelveLabsCorpora, tup \in BOOLEAN, iup \in BOOLEAN, lok \in BOOLEAN :
       LET rq == [NoReq EXCEPT !.text = text, !.image = image, !.image_weight = iw,
                               !.top_k = k, !.corpus = c, !.text_up = tup,
                               !.image_up = iup, !.loader_ok = lok]
           image_weight == IF text # << >> /\ image # << >>
                             THEN Sent(iw, TwelveLabsControllerWeight)
                             ELSE IF image # << >> THEN 10 ELSE 0
       IN IF text = << >> /\ image = << >>
            THEN \* "Either text or image query (or both) is required", 400
                 Answer("twelvelabs_controller", rq,
                        [NoResp EXCEPT !.status = "missing_query"])
            ELSE \E rs \in TwelveLabsOutcomes(text, image, tup, iup, lok, c, k, image_weight) :
                   Answer("twelvelabs_controller", rq, Caught(rs))

\* faulty variant: the ids are numbered along the entries that were kept
WithEmbeddingRenumbered(c) ==
  LET kept == SelectSeq([i \in 1 .. Len(c) |-> i], LAMBDA i : c[i] # << >>) IN
  [i \in 1 .. Len(kept) |-> i]

\* the ids of the entries that carry an 'embedding' (<< >>: an entry without one),
\* in file order: file_paths is appended to together with stored_embeddings
WithEmbedding(c) == SelectSeq([i \in 1 .. Len(c) |-> i], LAMBDA i : c[i] # << >>)

\* image_weight=0.5 in the signature of search_service.search_multimodal, in tenths
SearchServiceWeight == 5

\* the titan.json contents of a search: stored vectors of the queries' length,
\* vectors of another length, no entry with an 'embedding', and a file in which
\* one entry has none
SearchCorpora ==
  RouteCorpora \cup { << <<1, 0, 0>>, <<0, 1, 0>> >>, << << >> >>,
                      << <<1, 1>>, << >>, <<1, 0>> >> }

\* cosine_similarity(query_text_array, embeddings_array) accepts the stored vectors
Comparable(q, c) ==
  /\ WithEmbedding(c) # << >>
  /\ \A n \in 1 .. Len(c) : c[n] # << >> => Len(c[n]) = Len(q)

\* the lists search_service.search_multimodal returns once the text embedding and
\* the stored vectors are there; image is << >> if no image similarity was computed
SearchServiceRanked(text, image, c, k, w) ==
  LET paths == WithEmbedding(c)
      image_embeddings == SelectSeq(c, LAMBDA e : e # << >>)
      tsim == Listed([n \in 1 .. Len(image_embeddings) |->
                 SklearnCosine(text, image_embeddings[n])])
      isim == Listed([n \in 1 .. Len(image_embeddings) |->
                 IF image = << >> THEN << >>
                 ELSE << SklearnCosine(image, image_embeddings[n]) >>])
      comb == Listed([n \in 1 .. Len(image_embeddings) |->
                 IF image = << >> THEN tsim[n]
                 ELSE PlusScore(ScaleScore(w, isim[n][1]), ScaleScore(10 - w, tsim[n]))])
  IN { LET top == Take(Reverse(p), k) IN
       [n \in 1 .. Len(top) |->
          [id |-> paths[top[n]], score |-> comb[top[n]],
           text_similarity |-> << tsim[top[n]] >>,
           image_similarity |-> isim[top[n]]]] :
         p \in AscendingExact(comb, 1 .. Len(image_embeddings)) }

\* search_service.search_multimodal(query_text, query_image_path, top_k, image_weight)
SearchServiceCall ==
  /\ op = ""
  /\ \E text \in OptText, image \in OptImage, iw \in SentWeights, k \in CallTopKs,
        c \in SearchCorpora, tup \in BOOLEAN, iup \in BOOLEAN, lok \in BOOLEAN :
       LET rq == [NoReq EXCEPT !.text = text, !.image = image, !.image_weight = iw,
                               !.top_k = k, !.corpus = c, !.text_up = tup,
                               !.image_up = iup, !.loader_ok = lok]
           w == Sent(iw, SearchServiceWeight)
           image_embedding == Embedded(image, iup)
       IN IF text = << >>
            THEN \* get_titan_embedding(text=None) raises ValueError; return []
                 Answer("search_service", rq,
                        [NoResp EXCEPT !.status = "ok", !.reason = "text_embedding_failed"])
          ELSE IF ~tup
            THEN \* the provider call raises; except: return []
                 Answer("search_service", rq,
                        [NoResp EXCEPT !.status = "ok", !.remote = 1,
                                       !.reason = "text_embedding_failed"])
          ELSE IF ~lok
            THEN \* if not embeddings_dict: return []
                 Answer("search_service", rq,
                        [NoResp EXCEPT !.status = "ok", !.remote = 1,
                                       !.reason = "no_embeddings"])
          ELSE IF ~Comparable(text, c)
            THEN \* np.array or cosine_similarity raises; the outer except: return []
                 Answer("search_service", rq,
                        [NoResp EXCEPT !.status = "ok", !.remote = 1,
                                       !.reason = "error"])
          ELSE \E res \in SearchServiceRanked(text, image_embedding, c, k, w) :
                 Answer("search_service", rq,
                        [NoResp EXCEPT !.status = "ok",
                                       !.iw = IF image_embedding # << >> THEN << w >> ELSE << >>,
                                       !.tw = IF image_embedding # << >> THEN << 10 - w >>
                                                                         ELSE << >>,
                                       !.results = res,
                                       !.remote = 1 + Count(image # << >>),
                                       !.scored = Len(WithEmbedding(c)),
                                       !.used = Modalities(text, image_embedding),
                                       !.reason = IF image # << >> /\ ~iup
                                                    THEN "image_embedding_failed" ELSE ""])

\* image_weight = 0.4, the default of the Voyage route, in tenths
VoyageRouteWeight == 4
\* top_results = results[:10]
VoyageRouteTop == 10

\* the single embedding voyage-multimodal-3 returns for the inputs of a request
VoyageEmbeddings == { <<1, 0>>, <<3, 4>> }

\* n / sqrt(d2) as a score; a zero divisor gives nan, written num = 0, den2 = 0
Quotient(n, d2) ==
  IF d2 = 0 THEN [num |-> 0, den2 |-> 0]
  ELSE IF n = 0 THEN [num |-> 0, den2 |-> 1]
  ELSE LET g == Reducer(Abs(n), d2) IN [num |-> n \div g, den2 |-> d2 \div (g * g)]

\* cosine_similarity of cohere_service / voyage_service and the expression of the
\* Voyage route, on two lists of numbers: dot_product / (norm1 * norm2)
DivCosine(a, b) == Quotient(Dot(a, b), Dot(a, a) * Dot(b, b))

\* views/voyage_routes.search: POST /api/voyage/search
VoyageRoute ==
  /\ op = ""
  /\ \E text \in OptText, image \in OptImage, iw \in SentWeights, c \in RouteCorpora,
        q \in VoyageEmbeddings, up \in BOOLEAN, lok \in BOOLEAN :
       LET rq == [NoReq EXCEPT !.text = text, !.image = image, !.image_weight = iw,
                               !.top_k = VoyageRouteTop, !.corpus = c, !.text_up = up,
                               !.image_up = up, !.loader_ok = lok]
           image_weight == Sent(iw, VoyageRouteWeight)
           all == Listed([n \in 1 .. Len(c) |-> [id |-> n, score |-> DivCosine(q, c[n])]])
       IN IF text = << >> /\ image = << >>
            THEN \* 'No query text or image provided', 400
                 Answer("voyage_route", rq, [NoResp EXCEPT !.status = "missing_query"])
          ELSE IF ~lok
            THEN \* 'Embeddings file not found', 404
                 Answer("voyage_route", rq,
                        [NoResp EXCEPT !.status = "not_found", !.reason = "raised_corpus"])
          ELSE IF ~up
            THEN \* get_voyage_embedding raises after its retries; 500
                 Answer("voyage_route", rq,
                        [NoResp EXCEPT !.status = "error", !.remote = 1,
                                       !.reason = "raised_provider"])
          ELSE \* the weight is read and echoed; the similarity is left as computed
               Answer("voyage_route", rq,
                      [NoResp EXCEPT !.status = "ok",
                                     !.vector = Vec(q),
                                     !.results = Take(SortDescExact(all), VoyageRouteTop),
                                     !.remote = 1,
                                     !.scored = Len(c),
                                     !.used = Modalities(text, image)])

\* the embedding the Vertex model returns for an image with its contextual text
VertexEmbeddings == { <<1, 0>>, <<3, 4>> }
\* [0.0] * 256, at the model's dimension
VertexDummy == <<0, 0>>

\* controllers/vertex_controller.handle_vertex_request around
\* vertex_service.get_vertex_embeddings(image_path, text)
VertexRequest ==
  /\ op = ""
  /\ \E text \in OptText, image \in OptImage, q \in VertexEmbeddings, up \in BOOLEAN :
       LET rq == [NoReq EXCEPT !.text = text, !.image = image, !.text_up = up,
                               !.image_up = up]
       IN IF image = << >> \/ text = << >>
            THEN \* 'No image provided' / 'No text provided', 400
                 Answer("vertex_request", rq, [NoResp EXCEPT !.status = "missing_query"])
          ELSE IF ~up
            THEN \* every attempt failed (or the model is not there): the fallback
                 \* dictionary of dummy embeddings is returned and answered with 200
                 Answer("vertex_request", rq,
                        [NoResp EXCEPT !.status = "ok", !.vector = Vec(VertexDummy),
                                       !.remote = 1, !.placeholder = TRUE,
                                       !.reason = "raised_provider"])
          ELSE Answer("vertex_request", rq,
                      [NoResp EXCEPT !.status = "ok", !.vector = Vec(q), !.remote = 1,
                                     !.used = Modalities(text, image)])

\* top_n=10 in the signature of similarity_service.find_similar_images
SimilarityTopN == 10

\* the lists similarity_service.find_similar_images(query_embedding, top_n) can
\* return: [] if load_embeddings() gives nothing, else
\* np.argsort(similarities)[::-1][:top_n] on stored vectors of the query's length
SimilarImages(q, c, n, lok) ==
  LET stored_embeddings == SelectSeq(c, LAMBDA e : e # << >>)
      file_paths == WithEmbedding(c)
  IN
  IF ~lok \/ stored_embeddings = << >>
    THEN { << >> }
    ELSE LET sims == Listed([i \in 1 .. Len(stored_embeddings) |->
                               SklearnCosine(q, stored_embeddings[i])]) IN
         { LET top == Take(Reverse(p), n) IN
           [i \in 1 .. Len(top) |-> [id |-> file_paths[top[i]], score |-> sims[top[i]]]] :
             p \in AscendingExact(sims, 1 .. Len(sims)) }

\* views/titan_routes.embedding: POST /titan/embedding
TitanEmbeddingRoute ==
  /\ op = ""
  /\ \E text \in OptText, image \in OptImage, c \in RouteCorpora,
        tup \in BOOLEAN, iup \in BOOLEAN, lok \in BOOLEAN :
       LET rq == [NoReq EXCEPT !.text = text, !.image = image, !.top_k = SimilarityTopN,
                               !.corpus = c, !.text_up = tup, !.image_up = iup,
                               !.loader_ok = lok]
           \* an image in the request is embedded, the text only if there is no image
           q == IF image # << >> THEN image ELSE text
           up == IF image # << >> THEN iup ELSE tup
       IN IF text = << >> /\ image = << >>
            THEN \* 'No valid image or text found in request', 400
                 Answer("titan_route", rq, [NoResp EXCEPT !.status = "missing_query"])
          ELSE IF ~up
            THEN \* get_titan_embedding raises; 500
                 Answer("titan_route", rq,
                        [NoResp EXCEPT !.status = "error", !.remote = 1,
                                       !.reason = "raised_provider"])
          ELSE \E res \in SimilarImages(q, c, SimilarityTopN, lok) :
                 Answer("titan_route", rq,
                        [NoResp EXCEPT !.status = "ok", !.vector = Vec(q),
                                       !.results = res, !.remote = 1,
                                       !.scored = IF lok THEN Len(c) ELSE 0,
                                       !.used = IF image # << >> THEN {"image"}
                                                                 ELSE {"text"},
                                       !.reason = IF lok THEN "" ELSE "no_embeddings"])

\* vectors handed to normalize_vector and to the cosine functions: lists of
\* numbers of any norm, the zero vector among them
PlainVecs == { <<0, 0>>, <<1, 0>>, <<0, 1>>, <<1, 1>>, <<3, 4>>, <<-2, 0>> }

\* the norm is 0 and the code divides by it
DividesByZero(x) == SquaredNorm(x).n = 0

\* normalize_vector is called on a list of numbers
NormalizeCall ==
  /\ op = ""
  /\ \E v \in PlainVecs :
       Answer("normalize_vector", [NoReq EXCEPT !.text = v],
              [NoResp EXCEPT !.status = "ok", !.vector = NormalizeVector(Vec(v))])

\* AzureService.cosine_similarity is called on two lists of numbers
AzureCosineCall ==
  /\ op = ""
  /\ \E a \in PlainVecs, b \in PlainVecs :
       Answer("azure_cosine", [NoReq EXCEPT !.text = a, !.image = b],
              [NoResp EXCEPT !.status = "ok",
                             !.results = << [id |-> 1, score |-> AzureCosine(Vec(a), Vec(b))] >>])

\* cosine_similarity of cohere_service (and voyage_service) is called on two lists
\* of numbers: numpy divides by norm1 * norm2, zero or not, and returns nan for 0/0
CohereCosineCall ==
  /\ op = ""
  /\ \E a \in PlainVecs, b \in PlainVecs :
       Answer("cohere_cosine", [NoReq EXCEPT !.text = a, !.image = b],
              [NoResp EXCEPT !.status = "ok",
                             !.results = << [id |-> 1, score |-> DivCosine(a, b)] >>,
                             !.divided = DividesByZero(Vec(a)) \/ DividesByZero(Vec(b))])

\* query vectors handed to the ranking functions directly
CallQueries == { <<1, 0>>, <<1, 1>> }
CallTopKsAll == 0 .. MaxCallTopK

\* AzureService.find_similar_images is called with as many urls as embeddings
FindSimilarCall ==
  /\ op = ""
  /\ \E q \in CallQueries, c \in CallCorpora, k \in CallTopKsAll :
       \E res \in FindSimilarImages(Vec(q), c, k) :
         Answer("find_similar_images", [NoReq EXCEPT !.text = q, !.corpus = c, !.top_k = k],
                [NoResp EXCEPT !.status = "ok", !.results = res, !.scored = Len(c)])

\* files in which some entries have no 'embedding'
GappedCorpora ==
  { << << >>, <<0, 1>>, <<1, 0>> >>, << <<1, 1>>, << >>, <<1, 0>> >>, << << >> >> }

\* AzureService.find_similar_images is called with more or fewer urls than
\* embeddings: it returns [], []
FindSimilarUnequalCall ==
  /\ op = ""
  /\ \E q \in CallQueries, c \in CallCorpora, k \in CallTopKs, urls \in 0 .. (MaxCallCorpus + 1) :
       /\ urls # Len(c)
       /\ Answer("find_similar_images_unequal",
                 [NoReq EXCEPT !.text = q, !.corpus = c, !.top_k = k, !.urls = urls],
                 [NoResp EXCEPT !.status = "ok", !.reason = "length_mismatch"])

\* similarity_service.find_similar_images is called
SimilarityServiceCall ==
  /\ op = ""
  /\ \E q \in CallQueries, c \in CallCorpora \cup GappedCorpora, n \in CallTopKsAll,
        lok \in BOOLEAN :
       \E res \in SimilarImages(q, c, n, lok) :
         Answer("similarity_service",
                [NoReq EXCEPT !.text = q, !.corpus = c, !.top_k = n, !.loader_ok = lok],
                [NoResp EXCEPT !.status = "ok", !.results = res,
                               !.scored = IF lok THEN Len(WithEmbedding(c)) ELSE 0,
                               !.reason = IF lok /\ WithEmbedding(c) # << >>
                                            THEN "" ELSE "no_embeddings"])

\* image_weight=0.4 in the signature of cohere_service.search_images, in tenths
CohereSearchWeight == 4

\* stored_embeddings as passed to search_images; << >> is an entry that is None
CohereStored == { << <<1, 0>>, << >>, <<1, 1>> >>, << <<0, 1>>, <<1, 1>> >> }

\* the list cohere_service.search_images returns once the query embeddings are
\* there (image is << >> if there is no query image embedding)
CohereRanked(text, image, c, k, w) ==
  LET kept == SelectSeq([n \in 1 .. Len(c) |-> n], LAMBDA n : c[n] # << >>)
      all == Listed([n \in 1 .. Len(kept) |->
               LET stored_emb == c[kept[n]]
                   text_similarity == DivCosine(text, stored_emb)
               IN IF image = << >>
                    THEN [id |-> kept[n], score |-> text_similarity,
                          text_similarity |-> << text_similarity >>,
                          image_similarity |-> << >>]
                    ELSE LET image_similarity == DivCosine(image, stored_emb) IN
                         [id |-> kept[n],
                          score |-> PlusScore(ScaleScore(w, image_similarity),
                                              ScaleScore(10 - w, text_similarity)),
                          text_similarity |-> << text_similarity >>,
                          image_similarity |-> << image_similarity >>]])
  IN Take(SortDescExact(all), k)

\* cohere_service.search_images(query_text, stored_embeddings, image_paths, top_k,
\* query_image_path, image_weight); "raised_provider" is the exception of
\* get_text_embedding / get_cohere_embedding, which nothing here catches
CohereSearchImagesCall ==
  /\ op = ""
  /\ \E text \in TextEmbeddings, image \in OptImage, iw \in SentWeights, k \in CallTopKs,
        c \in CohereStored, tup \in BOOLEAN, iup \in BOOLEAN :
       LET rq == [NoReq EXCEPT !.text = text, !.image = image, !.image_weight = iw,
                               !.top_k = k, !.corpus = c, !.text_up = tup,
                               !.image_up = iup]
           w == Sent(iw, CohereSearchWeight)
       IN IF ~tup
            THEN Answer("cohere_search_images", rq,
                        [NoResp EXCEPT !.status = "raised_provider", !.remote = 1])
          ELSE IF image # << >> /\ ~iup
            THEN Answer("cohere_search_images", rq,
                        [NoResp EXCEPT !.status = "raised_provider", !.remote = 2])
          ELSE Answer("cohere_search_images", rq,
                      [NoResp EXCEPT !.status = "ok",
                                     !.iw = IF image # << >> THEN << w >> ELSE << >>,
                                     !.tw = IF image # << >> THEN << 10 - w >> ELSE << >>,
                                     !.results = CohereRanked(text, image, c, k, w),
                                     !.remote = 1 + Count(image # << >>),
                                     !.scored = Cardinality({n \in 1 .. Len(c) : c[n] # << >>}),
                                     !.used = Modalities(text, image)])

NextCall ==
  \/ NormalizeCall
  \/ AzureCosineCall
  \/ CohereCosineCall
  \/ CombineCall
  \/ AzureSearch
  \/ TwelveLabsRoute
  \/ TwelveLabsController
  \/ SearchServiceCall
  \/ VoyageRoute
  \/ VertexRequest
  \/ TitanEmbeddingRoute
  \/ FindSimilarCall
  \/ SimilarityServiceCall
  \/ CohereSearchImagesCall
  \/ FindSimilarUnequalCall

SpecCall == Init /\ [][NextCall]_vars

\* the request carried both a text and an image and both were embedded
BothEmbedded ==
  /\ Embedded(req.text, req.text_up) # << >>
  /\ Embedded(req.image, req.image_up) # << >>

\* normalize(image_weight * normalize(image) + (1 - image_weight) * normalize(text))
ComplementCombine(image, text, iw) ==
  NormalizeVector(Plus(Scale(iw, NormalizeVector(Vec(image))),
                       Scale(10 - iw, NormalizeVector(Vec(text)))))

\* C11: with both vectors present and an image_weight in [0, 1], image_weight = 0
\* gives normalize(text), image_weight = 1 gives normalize(image), and the text
\* contribution is weighted by 1 - image_weight, whether the caller sent the weights
\* or left them to the defaults.
C11_WeightEndpoints ==
  (/\ op \in {"combine_embeddings", "azure_search"}
   /\ resp.status = "ok"
   /\ BothEmbedded
   /\ Sent(req.image_weight, AzureImageWeight) \in 0 .. 10)
    => /\ req.image_weight = << 0 >> => resp.vector = NormalizeVector(Vec(req.text))
       /\ req.image_weight = << 10 >> => resp.vector = NormalizeVector(Vec(req.image))
       /\ resp.vector = ComplementCombine(req.image, req.text,
                                          Sent(req.image_weight, AzureImageWeight))

\* exactly one of the two queries was supplied
OneModality == (req.text = << >>) # (req.image = << >>)
TwelveLabsOps == {"twelvelabs_route", "twelvelabs_controller"}

\* C12: with exactly one of the two vectors present, combine returns the normalized
\* vector whatever weights were passed; a text-only search has combined_similarity
\* equal to text_similarity, an image-only search has it equal to image_similarity,
\* for every result and every image_weight sent.
C12_SingleModality ==
  /\ (op = "combine_embeddings" /\ OneModality)
       => /\ resp.status = "ok"
          /\ resp.vector = NormalizeVector(Vec(IF req.text # << >> THEN req.text
                                                                    ELSE req.image))
  /\ (op \in TwelveLabsOps /\ OneModality /\ resp.status = "ok")
       => \A n \in 1 .. Len(resp.results) :
            LET r == resp.results[n] IN
            /\ req.image = << >> =>
                 /\ r.text_similarity = << r.score >>
                 /\ r.score = SklearnCosine(req.text, req.corpus[r.id])
            /\ req.text = << >> =>
                 /\ r.image_similarity = << r.score >>
                 /\ r.score = SklearnCosine(req.image, req.corpus[r.id])

\* a text-only and an image-only search answered with results, the caller having
\* sent a weight that would change a weighted sum
C12_Witness ==
  /\ op \in TwelveLabsOps
  /\ OneModality
  /\ req.image_weight \in { << 4 >>, << 15 >> }
  /\ resp.status = "ok"
  /\ Len(resp.results) >= 2
  /\ resp.results[1].score # resp.results[2].score
  /\ resp.results[2].score.num # 0

\* C13: with neither a text nor an image supplied (and the stored embeddings
\* available), the call fails as a missing query, returns neither a vector nor a
\* result list, starts no remote embedding call and scores no corpus entry.
C13_MissingQuery ==
  (op # "" /\ req.text = << >> /\ req.image = << >> /\ req.loader_ok)
    => /\ resp.status \in {"missing_query", "none"}
            \/ (resp.status = "error" /\ resp.reason = "raised_missing_query")
       /\ resp.vector = NoVec
       /\ resp.results = << >>
       /\ resp.remote = 0
       /\ resp.scored = 0

\* a weighted combination of both modalities was formed
Weighting == resp.status = "ok" /\ resp.iw # << >>

\* C14: whatever image_weight the caller sends, the weight used in the
\* combination lies in [0, 1] (a value below 0 is used as 0, a value above 1 as 1),
\* the request is not rejected, and a warning is recorded for a value out of range.
C14_WeightClamped ==
  (op \in {"twelvelabs_route", "azure_search"} /\ BothEmbedded /\ req.loader_ok
     /\ req.image_weight # << >>)
    => /\ Weighting
       /\ resp.iw[1] \in 0 .. 10
       /\ req.image_weight[1] < 0 => (resp.iw = << 0 >> /\ resp.warned)
       /\ req.image_weight[1] > 10 => (resp.iw = << 10 >> /\ resp.warned)

\* C15: in every search path that is given both a text and an image query,
\* image_weight multiplies the image contribution and 1 - image_weight the text
\* contribution; no path swaps the two and none accepts the weight and ignores it.
C15_WeightConvention ==
  (/\ op \in {"search_service", "twelvelabs_route", "twelvelabs_controller", "voyage_route"}
   /\ resp.status = "ok"
   /\ req.text # << >> /\ req.image # << >>
   /\ req.text_up /\ req.image_up /\ req.loader_ok
   /\ req.image_weight \in { << 0 >>, << 4 >>, << 10 >> })
    => /\ resp.iw = req.image_weight
       /\ resp.tw = << 10 - req.image_weight[1] >>

\* the provider cannot embed one of the payloads the caller supplied
ProviderDown ==
  \/ req.text # << >> /\ ~req.text_up
  \/ req.image # << >> /\ ~req.image_up

ProviderOps ==
  {"azure_search", "twelvelabs_route", "twelvelabs_controller", "search_service",
   "voyage_route", "vertex_request"}

\* C16: when the provider fails for a payload the caller supplied, the request
\* ends with a failure: no success answer with placeholder embeddings, with an
\* empty result list, or with results from fewer modalities than were supplied.
C16_ProviderFailureFails ==
  (op \in ProviderOps /\ ProviderDown /\ req.loader_ok
     /\ (op = "vertex_request" => (req.text # << >> /\ req.image # << >>)))
    => /\ resp.status \in {"error", "missing_query"}
       /\ ~resp.placeholder
       /\ resp.results = << >>

CorpusOps ==
  {"azure_search", "twelvelabs_route", "twelvelabs_controller", "search_service",
   "voyage_route", "titan_route"}

\* C17: when the corpus loader cannot produce the corpus, a search (with a query
\* that was embedded) ends with a corpus-unavailable failure, not with an empty
\* ranked list.
C17_CorpusUnavailableFails ==
  (/\ op \in CorpusOps
   /\ ~req.loader_ok
   /\ req.text # << >> \/ req.image # << >>
   /\ ~ProviderDown)
    => resp.status \in {"error", "not_found"}

NaN == [num |-> 0, den2 |-> 0]

\* C18: normalize of a vector of norm 0 returns the vector unchanged, without a
\* division and without raising; no cosine similarity divides by zero.
C18_ZeroSafe ==
  /\ (op = "normalize_vector" /\ IsZeroVec(Vec(req.text)))
       => /\ resp.status = "ok"
          /\ resp.vector = Vec(req.text)
          /\ ~resp.divided
  /\ op \in {"azure_cosine", "cohere_cosine"}
       => /\ resp.status = "ok"
          /\ ~resp.divided
          /\ resp.results[1].score # NaN

\* the vectors that reached combine_embeddings are non-zero, and so is their
\* weighted sum when there are two
NonDegenerate ==
  LET t == Embedded(req.text, req.text_up)
      i == Embedded(req.image, req.image_up)
  IN /\ t # << >> => ~IsZeroVec(Vec(t))
     /\ i # << >> => ~IsZeroVec(Vec(i))
     /\ (t # << >> /\ i # << >>) =>
          ~IsZeroVec(Plus(Scale(Sent(req.image_weight, AzureImageWeight),
                                NormalizeVector(Vec(i))),
                          Scale(Sent(req.text_weight, AzureTextWeight),
                                NormalizeVector(Vec(t)))))

\* C19: normalize(v) has L2 norm 1 for every non-zero v, and so has the output of
\* combine for non-degenerate inputs (in exact arithmetic).
C19_UnitNorm ==
  /\ (op = "normalize_vector" /\ ~IsZeroVec(Vec(req.text))) => IsUnit(resp.vector)
  /\ (op \in {"combine_embeddings", "azure_search"} /\ resp.status = "ok" /\ NonDegenerate)
       => IsUnit(resp.vector)

\* two vectors were combined into one whose entries are irrational
C19_Witness ==
  /\ op = "combine_embeddings"
  /\ req.text = <<1, 0>> /\ req.image = <<0, 1>>
  /\ req.image_weight = << 10 >> /\ req.text_weight = << >>
  /\ resp.vector = [num |-> <<3, 5>>, den2 |-> 34]
  /\ IsUnit(resp.vector)

ScenarioCorpus == << <<1, 0>>, <<0, 1>>, <<1, 1>> >>

\* C20: for the corpus a = [1,0], b = [0,1], c = [1,1], the query [1,0] and
\* top_k = 2, the ranked result is [a, c] with similarities 1 and 1/sqrt(2).
C20_Scenario ==
  (/\ op \in {"find_similar_images", "similarity_service"}
   /\ req.corpus = ScenarioCorpus
   /\ req.text = <<1, 0>>
   /\ req.top_k = 2
   /\ req.loader_ok)
    => resp.results = << [id |-> 1, score |-> [num |-> 1, den2 |-> 1]],
                         [id |-> 3, score |-> [num |-> 1, den2 |-> 2]] >>

C20_Witness ==
  /\ op = "find_similar_images"
  /\ req.corpus = ScenarioCorpus
  /\ req.text = <<1, 0>>
  /\ req.top_k = 2
  /\ Len(resp.results) = 2
  /\ resp.results[1].id = 1
  /\ resp.results[2].id = 3

\* the search functions that report per-modality similarities with each result
SubScoreOps ==
  {"twelvelabs_route", "twelvelabs_controller", "search_service", "cohere_search_images"}

\* the similarity of one stored vector to one query vector, computed directly
DirectCosine(q, e) == Quotient(Dot(q, e), Dot(q, q) * Dot(e, e))

\* C21: in the searches that report sub-scores, when both a text and an image
\* query were supplied and embedded every result carries a text_similarity and an
\* image_similarity, each the cosine of the stored vector with the text or the
\* image query vector itself (not with a merged one); the sub-score of a modality
\* that was not supplied, or whose embedding was not obtained, is absent.
C21_SubScores ==
  (op \in SubScoreOps /\ resp.status = "ok") =>
    \A n \in 1 .. Len(resp.results) :
      LET r == resp.results[n]
          e == req.corpus[r.id]
      IN /\ r.text_similarity =
              IF req.text # << >> THEN << DirectCosine(req.text, e) >> ELSE << >>
         /\ r.image_similarity =
              IF req.image # << >> /\ req.image_up
                THEN << DirectCosine(req.image, e) >> ELSE << >>

\* a combined search whose results carry both sub-scores, neither of them the
\* combined score, and a search whose image embedding failed
C21_Witness ==
  /\ op = "search_service"
  /\ req.text # << >> /\ req.image # << >> /\ req.image_up
  /\ Len(resp.results) >= 2
  /\ resp.results[1].text_similarity # << >>
  /\ resp.results[1].image_similarity # << >>
  /\ resp.results[1].text_similarity # resp.results[1].image_similarity
  /\ resp.results[1].score # resp.results[1].text_similarity[1]
  /\ resp.results[1].score # resp.results[1].image_similarity[1]

(***************************************************************************)
(* Further properties of the retry loops.                                  *)
(***************************************************************************)
\* a step of the thread that runs the retry loop
CallerStep ==
  \/ LoopStart
  \/ LoopEnd
  \/ JoinFinished
  \/ JoinTimeout
  \/ CheckAlive
  \/ CheckDead
  \/ GetResult
  \/ SleepDone
  \/ AzureLoopStart
  \/ \E oc \in SyncOutcomes : AzurePost(oc)

\* the calling thread keeps running: join(timeout) returns when the worker ends or
\* the timeout elapses, a sleep ends, and a statement that can run does run; the
\* remote call itself need never return
SpecAdapterFair == SpecAdapter /\ WF_vars(CallerStep)

Invoked == provider \in Threaded /\ max_retries >= 1 /\ pc # "idle"
Success == pc = "returned" /\ result # NoResult /\ failure = ""
Fail == pc = "raised" /\ result = NoResult /\ failure # ""

\* the states of an invocation: a call has been started once the loop is entered,
\* no more than max_retries calls are started, an attempt follows only a timed-out
\* or a rate-limited one, and an ended invocation is a Success or a Fail
StateMachineShape ==
  Invoked =>
    /\ pc # "loop" => started >= 1
    /\ started <= max_retries
    /\ \A a \in Attempts :
         (a + 1 \in StartedAttempts) => observed[a] \in {"timeout"} \cup RateLimitErrs
    /\ Terminal => (Success \/ Fail)
    /\ ~(Success /\ Fail)

\* once ended, the invocation does nothing more
TerminalIsFinal ==
  (Invoked /\ Terminal) =>
    UNCHANGED << provider, max_retries, pc, attempt, wait, result, failure, started,
                 declared, observed, consumed, sleeps, startedAt >>

\* C22: an invocation with max_retries >= 1 starts a call, starts at most
\* max_retries attempts, enters a new attempt only after a timed-out or a
\* rate-limited one, ends (whatever the remote calls do) in exactly one of Success
\* (a vector is returned) and Fail (an exception is raised), and does nothing after.
C22_StateMachine ==
  /\ []StateMachineShape
  /\ [][TerminalIsFinal]_vars
  /\ (Invoked ~> Terminal)

\* an invocation that ended in Fail after a timed-out and two rate-limited attempts
C22_Witness ==
  /\ Invoked
  /\ Fail
  /\ max_retries = 3
  /\ started = 3
  /\ observed[0] = "timeout"
  /\ observed[1] \in RateLimitErrs
  /\ observed[2] \in RateLimitErrs

\* C23: the wait served after a rate-limited attempt a that is not the last one is
\* strictly longer than the wait the same adapter serves after a timed-out attempt
\* a, and a rate-limited last attempt ends the invocation with an exception.
C23_RateLimitBackoff ==
  \A a \in Attempts :
    (provider \in Threaded /\ observed[a] \in RateLimitErrs) =>
      /\ (CanRetry(a, max_retries) /\ Len(sleeps) > a) => sleeps[a + 1] > TimeoutBackoff
      /\ ~CanRetry(a, max_retries) => (pc = "raised" /\ result = NoResult)

\* the kind of failure an attempt was seen to end with
FailureKind(o) ==
  IF o = "timeout" THEN "timeout" ELSE IF o \in RateLimitErrs THEN "rate_limit" ELSE "error"

\* C24: the waits grow as base * 2^i with the attempt index i, for each kind of
\* retryable failure, timeouts included: of two waits served after failures of
\* the same kind, the later is the earlier doubled once per attempt in between.
C24_ExponentialBackoff ==
  \A i, j \in 1 .. Len(sleeps) :
    (i < j /\ FailureKind(observed[i - 1]) = FailureKind(observed[j - 1]))
      => sleeps[j] = sleeps[i] * Pow2(j - i)

(***************************************************************************)
(* Part IV (SpecLife): the stored corpus over a sequence of searches.      *)
(* Stored vectors are kept as exact vectors; ids are positions.            *)
(***************************************************************************)
\* searches served in one run
MaxSearches == 2

\* a file that exists but holds no 'embeddings' / 'image_urls' (no entry with
\* an 'embedding')
Malformed == [exists |-> TRUE, keys |-> FALSE, image_urls |-> << >>, embeddings |-> << >>]

\* a well-formed file holding the vectors c
StoredFile(c) ==
  [exists |-> TRUE, keys |-> TRUE, image_urls |-> [i \in 1 .. Len(c) |-> i],
   embeddings |-> [i \in 1 .. Len(c) |-> Vec(c[i])]]

LifeCorpora == { << <<3, 4>>, <<1, 0>> >>, << <<1, 0>>, <<0, 2>> >>, << <<0, 2>> >> }
FileContents == {Absent, Malformed} \cup { StoredFile(c) : c \in LifeCorpora }
LifeQueries == { <<1, 0>>, <<3, 4>>, <<1, 0, 0>> }
LifeTopKs == {1, 2}

\* faulty variant: the arrays a search worked on are stored back
AfterSearchInPlace(data, work) == [data EXCEPT !.embeddings = work]

\* what a search leaves in the stored corpus it read: np.array(...), normalize(...)
\* and v / norm build new arrays, and nothing is assigned into the stored data
AfterSearch(data, work) == data

\* import of views/azure_routes: the loading loop runs once, and the first
\* embeddings file that exists and has both keys becomes precomputed_data
Startup ==
  /\ process = "down"
  /\ \E f \in [Paths -> FileContents] :
       LET loaded == IF f["azure"].exists /\ f["azure"].keys THEN f["azure"] ELSE Absent IN
       /\ files' = f
       /\ precomputed_data' = loaded
       /\ loads' = [loads EXCEPT !["azure"] = 1]
       /\ produced' = [files |-> f, precomputed_data |-> loaded]
  /\ process' = "up"
  /\ UNCHANGED << searches, last >>
  /\ UNCHANGED << adapterVars, rankVars, callVars >>

\* the arrays a search builds from the stored vectors, normalized or not
Arrays(embs, normalized) ==
  [i \in 1 .. Len(embs) |-> IF normalized THEN NormalizeVector(embs[i]) ELSE embs[i]]

\* the similarity list of a query against arrays of the query's length
Similarities(q, arrays) ==
  Listed([i \in 1 .. Len(arrays) |-> AzureCosine(Vec(q), arrays[i])])

\* the k highest: np.argsort(sims)[::-1][:k], as [id, score] records
HighestK(sims, ids, k) ==
  { LET top == Take(Reverse(p), k) IN
    [i \in 1 .. Len(top) |-> [id |-> ids[top[i]], score |-> sims[top[i]]]] :
      p \in AscendingExact(sims, 1 .. Len(sims)) }

Served(path, st, work, res) ==
  /\ last' = [path |-> path, status |-> st, work |-> work, results |-> res]
  /\ searches' = searches + 1
  /\ UNCHANGED << process, produced >>
  /\ UNCHANGED << adapterVars, rankVars, callVars >>

\* views/azure_routes.search_images, from the corpus check to find_similar_images
LifeAzureSearch ==
  /\ process = "up"
  /\ searches < MaxSearches
  /\ \E q \in LifeQueries, k \in LifeTopKs :
       IF ~precomputed_data.exists
         THEN \* if not precomputed_data: 'Embeddings data not available', 500
              /\ Served("azure", "error", << >>, << >>)
              /\ UNCHANGED << files, precomputed_data, loads >>
         ELSE LET reference_embeddings == Arrays(precomputed_data.embeddings, FALSE)
                  normalized == Arrays(reference_embeddings, TRUE)
              IN /\ IF \E i \in 1 .. Len(normalized) : Len(normalized[i].num) # Len(q)
                      THEN \* np.dot raises; the outer except answers 500
                           Served("azure", "error", reference_embeddings, << >>)
                      ELSE \E res \in HighestK(Similarities(q, normalized),
                                               precomputed_data.image_urls, k) :
                             Served("azure", "ok", normalized, res)
                 /\ precomputed_data' = AfterSearch(precomputed_data, normalized)
                 /\ UNCHANGED << files, loads >>

\* similarity_service.find_similar_images: load_embeddings() and the ranking
LifeTitanSearch ==
  /\ process = "up"
  /\ searches < MaxSearches
  /\ loads' = [loads EXCEPT !["titan"] = @ + 1]
  /\ UNCHANGED precomputed_data
  /\ \E q \in LifeQueries, n \in LifeTopKs :
       LET embeddings_data == files["titan"] IN
       IF ~embeddings_data.exists \/ ~embeddings_data.keys
         THEN \* return []
              /\ Served("titan", "ok", << >>, << >>)
              /\ UNCHANGED files
         ELSE LET stored == Arrays(embeddings_data.embeddings, FALSE)
                  \* if abs(first_norm - 1.0) > 0.01: normalize(...)
                  work == Arrays(stored, ~IsUnit(stored[1]))
              IN /\ IF Len(stored[1].num) # Len(q)
                      THEN \* cosine_similarity raises; except: return []
                           Served("titan", "ok", work, << >>)
                      ELSE \E res \in HighestK(Similarities(q, work),
                                               embeddings_data.image_urls, n) :
                             Served("titan", "ok", work, res)
                 /\ files' = [files EXCEPT !["titan"] = AfterSearch(embeddings_data, work)]

\* views/cohere_routes.search: the file is opened and read on every request
LifeCohereRoute ==
  /\ process = "up"
  /\ searches < MaxSearches
  /\ UNCHANGED precomputed_data
  /\ \E q \in LifeQueries :
       LET stored_data == files["cohere"] IN
       IF ~stored_data.exists
         THEN \* 'Embeddings file not found', 404
              /\ Served("cohere", "not_found", << >>, << >>)
              /\ UNCHANGED << files, loads >>
         ELSE /\ loads' = [loads EXCEPT !["cohere"] = @ + 1]
              /\ IF ~stored_data.keys
                   THEN \* 'No embeddings found in the file', 404
                        /\ Served("cohere", "not_found", << >>, << >>)
                        /\ UNCHANGED files
                   ELSE LET work == Arrays(stored_data.embeddings, FALSE)
                            \* a similarity that raises is set to 0.0
                            sims == Listed([i \in 1 .. Len(work) |->
                                      IF Len(work[i].num) # Len(q)
                                        THEN [num |-> 0, den2 |-> 1]
                                        ELSE AzureCosine(Vec(q), work[i])])
                            all == Listed([i \in 1 .. Len(work) |->
                                      [id |-> stored_data.image_urls[i], score |-> sims[i]]])
                        IN /\ Served("cohere", "ok", work,
                                     Take(SortDescExact(all), CohereRouteTop))
                           /\ files' = [files EXCEPT !["cohere"] =
                                          AfterSearch(stored_data, work)]

NextLife ==
  \/ Startup
  \/ LifeAzureSearch
  \/ LifeTitanSearch
  \/ LifeCohereRoute

SpecLife == Init /\ [][NextLife]_vars

\* C25: after any sequence of searches, failed ones included, the stored ids and
\* vectors of every search path, on disk and in precomputed_data, are what they
\* were when the loader produced them, in content and order.
C25_CorpusReadOnly ==
  process = "up" =>
    /\ precomputed_data = produced.precomputed_data
    /\ files = produced.files

\* a second search, after which the arrays the search worked on differ from the
\* stored vectors (they were normalized)
C25_Witness ==
  /\ searches = 2
  /\ last.path = "titan"
  /\ last.status = "ok"
  /\ last.results # << >>
  /\ last.work # files["titan"].embeddings
  /\ files["titan"] = produced.files["titan"]

\* C26: no corpus loader runs more than once in the life of the process: after
\* the first load every search reads the corpus kept from it.
C26_LoadedOnce == \A p \in Paths : loads[p] <= 1

\* C27: result_queue.get() is reached only when the attempt's worker thread has
\* ended, and the attempt's queue then holds exactly one item, ("success", ...) or
\* ("error", ...): the get never blocks, however the end of the worker falls
\* relative to the join timeout and the is_alive check.
C27_GetNeverBlocks ==
  (provider \in Threaded /\ pc = "get") =>
    /\ worker[attempt] = "dead"
    /\ Len(queue[attempt]) = 1
    /\ queue[attempt][1].status \in {"success", "error"}

\* the get of a second attempt whose call raised, while the call of the first
\* attempt, declared timed out, is still running
C27_Witness ==
  /\ provider \in Threaded
  /\ pc = "get"
  /\ attempt = 1
  /\ queue[1] # << >>
  /\ queue[1][1].status = "error"
  /\ 0 \in declared
  /\ worker[0] = "calling"

\* C28: in every retry loop a wait is entered only after a failed attempt that is
\* not the last one (attempt < max_retries - 1), so that an ended run has served
\* one wait less than it started attempts (max_retries - 1 on exhaustion), and
\* the failure of the last attempt is reported with no wait in between.
C28_NoWaitAfterLast ==
  /\ pc = "sleep" => attempt < max_retries - 1
  /\ Len(sleeps) <= attempt
  /\ (Terminal /\ started >= 1) => Len(sleeps) = started - 1
  /\ (Terminal /\ started = max_retries /\ started >= 1
        /\ observed[max_retries - 1] # "ok") => Len(sleeps) = max_retries - 1

\* get_vertex_embeddings after three failed attempts: two waits, 1 s and 2 s
C28_Witness ==
  /\ provider = "vertex"
  /\ pc = "returned"
  /\ result = NoResult
  /\ started = VertexMaxRetries
  /\ sleeps = << 1, 2 >>

\* the searches that return ids with scores
AlignOps ==
  {"find_similar_images", "similarity_service", "cohere_search_images",
   "twelvelabs_route", "twelvelabs_controller", "search_service"}

\* two exact scores are the same number
SameScore(a, b) == ScoreLeq(a, b) /\ ScoreLeq(b, a)

\* the score of the stored vector e for the request, computed from e alone
ScoreOf(e) ==
  IF resp.iw # << >>
    THEN PlusScore(ScaleScore(resp.iw[1], DirectCosine(req.image, e)),
                   ScaleScore(resp.tw[1], DirectCosine(req.text, e)))
  ELSE IF req.text # << >> THEN DirectCosine(req.text, e)
  ELSE DirectCosine(req.image, e)

\* C29: in every ranked result the id is that of the stored entry whose vector
\* gives the reported score, entries with no embedding, a None embedding or a
\* filtered-out length never being returned nor shifting the ids of the others;
\* no entry is returned twice; and AzureService.find_similar_images given id and
\* vector lists of different lengths returns empty lists.
C29_IdScoreAligned ==
  /\ (op \in AlignOps /\ resp.status = "ok") =>
       /\ \A n \in 1 .. Len(resp.results) :
            LET r == resp.results[n] IN
            /\ r.id \in 1 .. Len(req.corpus)
            /\ Len(req.corpus[r.id]) = Len(req.corpus[1]) \/ req.corpus[1] = << >>
            /\ req.corpus[r.id] # << >>
            /\ SameScore(r.score, ScoreOf(req.corpus[r.id]))
       /\ \A m, n \in 1 .. Len(resp.results) :
            m # n => resp.results[m].id # resp.results[n].id
  /\ op = "find_similar_images_unequal" =>
       (req.urls # Len(req.corpus) /\ resp.results = << >>)

\* a result that follows a skipped entry in the file and outranks an earlier one
C29_Witness ==
  /\ op = "similarity_service"
  /\ req.corpus = << <<1, 1>>, << >>, <<1, 0>> >>
  /\ req.text = <<1, 0>>
  /\ Len(resp.results) = 2
  /\ resp.results[1].id = 3
  /\ resp.results[2].id = 1

\* the text embedding of the search_service request could not be had
TextFailed == req.text = << >> \/ ~req.text_up

\* the image embedding call of the search_service request was made and failed
ImageFailed == req.image # << >> /\ ~req.image_up

\* C30: search_service.search_multimodal returns an empty list and scores nothing
\* if the text embedding call fails; if that succeeds and the image embedding
\* call fails, it returns text-only results, each with combined_similarity equal
\* to text_similarity and without image_similarity; and it returns a list, never
\* an exception, whatever fails at the provider or in the stored embeddings.
C30_TitanDegradation ==
  op = "search_service" =>
    /\ resp.status = "ok"
    /\ TextFailed => (resp.results = << >> /\ resp.scored = 0)
    /\ (~TextFailed /\ ImageFailed) =>
         /\ resp.used \subseteq {"text"}
         /\ (req.loader_ok /\ Comparable(req.text, req.corpus)) =>
              resp.results # << >>
         /\ \A n \in 1 .. Len(resp.results) :
              LET r == resp.results[n] IN
              /\ r.image_similarity = << >>
              /\ r.text_similarity # << >>
              /\ SameScore(r.score, r.text_similarity[1])
              /\ SameScore(r.score, DirectCosine(req.text, req.corpus[r.id]))
    /\ (~req.loader_ok \/ ~Comparable(req.text, req.corpus)) => resp.results = << >>

\* a search with text and image whose image embedding failed, answered with two
\* text-only results
C30_Witness ==
  /\ op = "search_service"
  /\ ~TextFailed
  /\ ImageFailed
  /\ resp.reason = "image_embedding_failed"
  /\ Len(resp.results) = 2
  /\ \A n \in 1 .. 2 : resp.results[n].image_similarity = << >>

=============================================================================
